---- MODULE Spec2Model ----
(***************************************************************************)
(* Parameter validation, normalisation and request construction of the     *)
(* four NRCan geodetic command-line tools (GPS-H, INDIR, NTv2, TRX).       *)
(*                                                                         *)
(* One invocation of one tool is one behaviour: Init fixes the tool and    *)
(* the argparse namespace `args`, and the actions are the consecutive      *)
(* sections of the script: validation, the blocking network calls, the     *)
(* interpretation of the response.                                         *)
(*                                                                         *)
(* Python values: a str is a TLA+ string, None is the value None below     *)
(* (no command line can produce it as a string).  Inputs are ASCII.        *)
(***************************************************************************)
EXTENDS Integers, Sequences, FiniteSets, TLC

VARIABLES tool, args, pc, env, calls, resp, outcome, fs

vars == <<tool, args, pc, env, calls, resp, outcome, fs>>

(***************************************************************************)
(* Bounds of the model.                                                    *)
(***************************************************************************)
\* Number of leading entries of each catalog whose codes (as written, lower
\* case and upper case) are offered as input tokens.
MaxCodes == 3

(***************************************************************************)
(* Python values and str methods.                                          *)
(***************************************************************************)
None == "<None>"

\* bool(v) for v a str or None
Truthy(v) == v # None /\ v # ""

\* str(v), as urlencode applies it to every value
Str(v) == IF v = None THEN "None" ELSE v

LowerAlpha == "abcdefghijklmnopqrstuvwxyz"

UpperAlpha == "ABCDEFGHIJKLMNOPQRSTUVWXYZ"

Digits == "0123456789"

Char(s, i) == SubSeq(s, i, i)

IndexOf(alphabet, c) ==
    IF \E i \in 1..Len(alphabet) : Char(alphabet, i) = c
    THEN CHOOSE i \in 1..Len(alphabet) : Char(alphabet, i) = c
    ELSE 0

\* the letters str.upper() changes, with their images
UpperMap ==
    [c \in {Char(LowerAlpha, i) : i \in 1..Len(LowerAlpha)} |->
        Char(UpperAlpha, IndexOf(LowerAlpha, c))]

\* the letters str.lower() changes, with their images
LowerMap ==
    [c \in {Char(UpperAlpha, i) : i \in 1..Len(UpperAlpha)} |->
        Char(LowerAlpha, IndexOf(UpperAlpha, c))]

UpperChar(c) == IF c \in DOMAIN UpperMap THEN UpperMap[c] ELSE c

LowerChar(c) == IF c \in DOMAIN LowerMap THEN LowerMap[c] ELSE c

RECURSIVE StrUpper(_)
\* str.upper()
StrUpper(s) ==
    IF s = "" THEN "" ELSE UpperChar(Char(s, 1)) \o StrUpper(SubSeq(s, 2, Len(s)))

RECURSIVE StrLower(_)
\* str.lower()
StrLower(s) ==
    IF s = "" THEN "" ELSE LowerChar(Char(s, 1)) \o StrLower(SubSeq(s, 2, Len(s)))

\* str.startswith(p)
StartsWith(s, p) == Len(s) >= Len(p) /\ SubSeq(s, 1, Len(p)) = p

\* list.index(v) raises ValueError iff v is no element of the list
InList(list, v) == \E i \in 1..Len(list) : list[i] = v

IsDigit(c) == c \in {Char(Digits, i) : i \in 1..Len(Digits)}

DigitVal(c) == IndexOf(Digits, c) - 1

AllDigits(s) == \A i \in 1..Len(s) : IsDigit(Char(s, i))

RECURSIVE IntOf(_)
\* int(s) of a string of digits
IntOf(s) ==
    IF s = "" THEN 0
    ELSE 10 * IntOf(SubSeq(s, 1, Len(s) - 1)) + DigitVal(Char(s, Len(s)))

(***************************************************************************)
(* Reference catalogs.                                                     *)
(***************************************************************************)
rf_list ==
    <<"NAD83(CSRS)", "ITRF2020", "ITRF2014", "ITRF2008", "ITRF2005", "ITRF2000",
      "ITRF97", "ITRF96", "ITRF94", "ITRF93", "ITRF92", "ITRF91", "ITRF90",
      "ITRF89", "ITRF88">>

\* dict key k of the source is position k + 1 here
geoid_list ==
    <<"CGG2013a", "CGG2013", "HT2_2010v70", "HT2_2002v70", "HT2_1997", "CGG2010",
      "CGG2005", "CGG2000", "GSD95", "GSD91", "EGM08">>

zone_list ==
    <<"QC-LCC", "NB-NAD83(CSRS)", "PEI-NAD83(CSRS)", "AB-3TM-111", "AB-3TM-114",
      "AB-3TM-117", "AB-3TM-120", "AB-UTM-111", "AB-UTM-117", "AB-10TM",
      "BC-3TM-111", "BC-3TM-114", "BC-3TM-117", "BC-3TM-120", "BC-3TM-123",
      "BC-3TM-126", "BC-3TM-129", "BC-3TM-132", "BC-3TM-135", "BC-3TM-138",
      "BC-3TM-141", "BC-6TM-111", "BC-6TM-117", "BC-6TM-123", "BC-6TM-129",
      "BC-6TM-135", "BC-6TM-141", "BC-10TM-115", "BC-10TM-125", "BC-10TM-135",
      "NL-1", "NL-2", "NL-3", "NL-4", "NL-5", "NL-6", "NS-NAD83-1997-4",
      "NS-NAD83-1997-5", "NS-NAD83-2010-4", "NS-NAD83-2010-5", "ON-8", "ON-9",
      "ON-10", "ON-11", "ON-12", "ON-13", "ON-14", "ON-15", "ON-16", "ON-17",
      "QC-2", "QC-3", "QC-4", "QC-5", "QC-6", "QC-7", "QC-8", "QC-9", "QC-10",
      "UTM1", "UTM2", "UTM3", "UTM4", "UTM5", "UTM6", "UTM7", "UTM8", "UTM9",
      "UTM10", "UTM11", "UTM12", "UTM13", "UTM14", "UTM15", "UTM16", "UTM17",
      "UTM18", "UTM19", "UTM20", "UTM21", "UTM22", "UTM23", "UTM24", "UTM25",
      "UTM26", "UTM27", "UTM28", "UTM29", "UTM30", "UTM31", "UTM32", "UTM33",
      "UTM34", "UTM35", "UTM36", "UTM37", "UTM38", "UTM39", "UTM40", "UTM41",
      "UTM42", "UTM43", "UTM44", "UTM45", "UTM46", "UTM47", "UTM48", "UTM49",
      "UTM50", "UTM51", "UTM52", "UTM53", "UTM54", "UTM55", "UTM56", "UTM57",
      "UTM58", "UTM59", "UTM60">>

conversions_dict ==
    <<"HT2_2010_to_CGG2013a", "CGG2013a_HT2_2010", "HT2_2002_to_CGG2013a",
      "CGG2013a_HT2_2002", "HT2_1997_to_CGG2013a", "CGG2013a_HT2_1997">>

ellipsoid_dict ==
    <<"GRS80", "WGS84", "Clarke 1866", "ATS77", "International", "Bessel",
      "Krassovsky", "Everest", "Clarke 1880", "Australia National",
      "Fisher (Mercury)", "Fisher(Asia)", "Hoygh", "Average Terrestrial", "NWL9D",
      "NWL10F (WGS72)">>

\* the keys of coverage_and_grid, in insertion order
coverage_and_grid ==
    <<"NTV2", "ABCSRSV4", "ABCSRSV7", "CRD27_00", "CRD93_00", "NVI93_05",
      "BC_27_05", "BC_93_05", "NB7783v2", "NB2783_v2", "NLCSRSV4A", "GS7783",
      "NS778302", "ON27CSv1", "ON76CSv1", "ON83CSv1", "TO27CSv1", "PE7783V2",
      "NA27SCRS", "CQ77SCRS", "NA83SCRS", "SK27-98", "SK83-98">>

\* `for key, code in d.items(): if token.lower() == code.lower(): key; break`
\* the first matching position, 0 when the loop ends without a match
\* (the key stays None)
FirstKey(dict, token) ==
    LET t == StrLower(token)
        hits == {k \in 1..Len(dict) : t = StrLower(dict[k])}
    IN  IF hits = {} THEN 0 ELSE CHOOSE k \in hits : \A j \in hits : k <= j

\* dict.get(key): None for the key None
DictGet(dict, key) == IF key = 0 THEN None ELSE dict[key]

\* `NB...` / `PEI...` zone tokens: "brackets will not pass through console"
\* the alias prefixes matched in the letter case the user typed
ZoneAlias_CaseSensitive(token) ==
    IF StartsWith(token, "NB") THEN "NB-NAD83(CSRS)"
    ELSE IF StartsWith(token, "PEI") THEN "PEI-NAD83(CSRS)"
    ELSE StrUpper(token)

ZoneAlias(token) ==
    IF StartsWith(StrUpper(token), "NB") THEN "NB-NAD83(CSRS)"
    ELSE IF StartsWith(StrUpper(token), "PEI") THEN "PEI-NAD83(CSRS)"
    ELSE StrUpper(token)

\* "Any input of NAD for Reference Frame"
FrameAlias(token) ==
    IF StartsWith(StrUpper(token), "NAD") THEN "NAD83(CSRS)" ELSE StrUpper(token)

(***************************************************************************)
(* Process outcomes.                                                       *)
(***************************************************************************)
Running == [kind |-> "running", err |-> "", status |-> 0 - 1]

\* sys.exit('message'): the message goes to stderr, exit status 1
ExitMsg(e) == [kind |-> "exit", err |-> e, status |-> 1]

\* print(message); sys.exit() / exit() / quit(): exit status 0
ExitPlain(e) == [kind |-> "exit", err |-> e, status |-> 0]

\* print(message); print('Possible Inputs:', catalog); sys.exit(): the
\* catalog is listed with the message, exit status 0
ExitListing(e, catalog) == ExitPlain(e) @@ ("listed" :> catalog)

\* the catalog an outcome lists with its message, <<>> if it lists none
Listed(o) == IF "listed" \in DOMAIN o THEN o.listed ELSE <<>>

\* an exception no handler catches: traceback, exit status 1
Crash(exc) == [kind |-> "crash", err |-> exc, status |-> 1]

Fail(o) == [ok |-> FALSE, outcome |-> o, env |-> <<>>]

Pass(e) == [ok |-> TRUE, outcome |-> Running, env |-> e]

(***************************************************************************)
(* Epoch resolution (GPS-H epoch, TRX origin and destination epoch).       *)
(***************************************************************************)
IsLeap(y) == (y % 4 = 0 /\ y % 100 # 0) \/ y % 400 = 0

DaysInMonth(y, m) ==
    IF m = 2 THEN (IF IsLeap(y) THEN 29 ELSE 28)
    ELSE IF m \in {4, 6, 9, 11} THEN 30 ELSE 31

\* datetime.date(y, m, d) raises ValueError unless this holds
DateOk(y, m, d) ==
    /\ y >= 1 /\ y <= 9999
    /\ m >= 1 /\ m <= 12
    /\ d >= 1 /\ d <= DaysInMonth(y, m)

\* re.compile(r'^(\d{4})-(\d{2})-(\d{2})$').match(s)
DateShape(s) ==
    /\ Len(s) = 10
    /\ AllDigits(SubSeq(s, 1, 4)) /\ Char(s, 5) = "-"
    /\ AllDigits(SubSeq(s, 6, 7)) /\ Char(s, 8) = "-"
    /\ AllDigits(SubSeq(s, 9, 10))

date_format(epoch_string) ==
    /\ DateShape(epoch_string)
    /\ DateOk(IntOf(SubSeq(epoch_string, 1, 4)), IntOf(SubSeq(epoch_string, 6, 7)),
              IntOf(SubSeq(epoch_string, 9, 10)))

RECURSIVE Strip(_)
\* str.strip() of blanks, which float() applies to its argument
Strip(s) ==
    IF s = "" THEN ""
    ELSE IF Char(s, 1) = " " THEN Strip(SubSeq(s, 2, Len(s)))
    ELSE IF Char(s, Len(s)) = " " THEN Strip(SubSeq(s, 1, Len(s) - 1))
    ELSE s

HasSign(s) == s # "" /\ Char(s, 1) \in {"+", "-"}

Unsigned(s) == IF HasSign(s) THEN SubSeq(s, 2, Len(s)) ELSE s

\* position of the first character of s that is in set cs, 0 if none
FirstPos(s, cs) ==
    IF \E i \in 1..Len(s) : Char(s, i) \in cs
    THEN CHOOSE i \in 1..Len(s) :
            /\ Char(s, i) \in cs
            /\ \A j \in 1..(i - 1) : Char(s, j) \notin cs
    ELSE 0

\* float(s): the literal is [sign] digits [. digits] [e [sign] digits], or
\* inf / infinity / nan.  The value is sign * mant * 10^shift.  Literals of at
\* most nine significant digits, which binary rounding leaves on their side of
\* 1980 and 2050.
FloatParse(s) ==
    LET t == Strip(s)
        u == Unsigned(t)
        e == FirstPos(u, {"e", "E"})
        m == IF e = 0 THEN u ELSE SubSeq(u, 1, e - 1)
        x == IF e = 0 THEN "" ELSE SubSeq(u, e + 1, Len(u))
        d == FirstPos(m, {"."})
        ip == IF d = 0 THEN m ELSE SubSeq(m, 1, d - 1)
        fp == IF d = 0 THEN "" ELSE SubSeq(m, d + 1, Len(m))
        mantOk == AllDigits(ip) /\ AllDigits(fp) /\ Len(ip) + Len(fp) >= 1
        expOk == e = 0 \/ (Unsigned(x) # "" /\ AllDigits(Unsigned(x)))
        ex == IF e = 0 THEN 0
              ELSE IF HasSign(x) /\ Char(x, 1) = "-" THEN 0 - IntOf(Unsigned(x))
              ELSE IntOf(Unsigned(x))
    IN  IF StrLower(u) \in {"inf", "infinity", "nan"}
        THEN [ok |-> TRUE, finite |-> FALSE, neg |-> FALSE, mant |-> 0, shift |-> 0]
        ELSE IF mantOk /\ expOk
        THEN [ok |-> TRUE, finite |-> TRUE, neg |-> HasSign(t) /\ Char(t, 1) = "-",
              mant |-> IntOf(ip \o fp), shift |-> ex - Len(fp)]
        ELSE [ok |-> FALSE, finite |-> FALSE, neg |-> FALSE, mant |-> 0, shift |-> 0]

RECURSIVE Pow10(_)
Pow10(k) == IF k = 0 THEN 1 ELSE 10 * Pow10(k - 1)

\* lo <= f <= hi for a parsed float f and whole numbers 0 < lo <= hi < 10^4
FloatBetween(f, lo, hi) ==
    /\ f.finite /\ ~f.neg /\ f.mant # 0
    /\ IF f.shift >= 0
       THEN /\ f.shift <= 3 /\ f.mant <= hi
            /\ lo <= f.mant * Pow10(f.shift) /\ f.mant * Pow10(f.shift) <= hi
       ELSE /\ 0 - f.shift <= 5
            /\ lo * Pow10(0 - f.shift) <= f.mant /\ f.mant <= hi * Pow10(0 - f.shift)

\* the year 2050 itself left out of the span
EpochInRange_Before2050(raw) == FloatBetween(FloatParse(raw), 1980, 2049)

\* `1980.0 <= float(raw) <= 2050.0`
EpochInRange(raw) == FloatBetween(FloatParse(raw), 1980, 2050)

\* the date_format / float / range cascade: the epoch string kept, or the
\* error the script exits with
EpochResolve(raw) ==
    IF date_format(raw) THEN [ok |-> TRUE, epoch |-> raw, err |-> ""]
    ELSE IF FloatParse(raw).ok
    THEN IF EpochInRange(raw) THEN [ok |-> TRUE, epoch |-> raw, err |-> ""]
         ELSE [ok |-> FALSE, epoch |-> None, err |-> "E_EpochRange"]
    ELSE [ok |-> FALSE, epoch |-> None, err |-> "E_EpochFormat"]

(***************************************************************************)
(* Requests and responses.                                                 *)
(***************************************************************************)
\* a GET of domain + path + '?' + urlencode(params); params holds str(value)
\* of every entry of the dict given to urlencode, keys its order
GetCall(path, keys, params) ==
    [method |-> "GET", path |-> path, keys |-> keys, params |-> params]

\* a POST of the MultipartEncoder fields; the `file` entry is the opened batch
\* file, the other fields are kept as the script puts them in `content`
PostCall(path, keys, fields, file) ==
    [method |-> "POST", path |-> path, keys |-> keys, params |-> fields, file |-> file]

\* urllib.parse.quote_plus, as urlencode applies it to each value: letters,
\* digits and _ . - ~ stay, a space becomes '+', any other character its
\* %XX escape
RECURSIVE quote_plus(_)

quote_plus(s) ==
    IF s = "" THEN ""
    ELSE (CASE SubSeq(s, 1, 1) = " " -> "+"
            [] SubSeq(s, 1, 1) = "%" -> "%25"
            [] SubSeq(s, 1, 1) = "(" -> "%28"
            [] SubSeq(s, 1, 1) = ")" -> "%29"
            [] SubSeq(s, 1, 1) = "+" -> "%2B"
            [] SubSeq(s, 1, 1) = "/" -> "%2F"
            [] OTHER -> SubSeq(s, 1, 1)) \o quote_plus(SubSeq(s, 2, Len(s)))

\* urllib.parse.urlencode(params): the query string, as the value that
\* follows each key
urlencode(params) == [k \in DOMAIN params |-> quote_plus(params[k])]

\* JSON values, as json.loads returns them
JStr(s) == [t |-> "str", s |-> s]

JObj(members) == [t |-> "obj", m |-> members]

JNull == [t |-> "null"]

\* response bodies: text json.loads rejects, or the text of a JSON value
NotJson == [json |-> FALSE, val |-> JNull]

Json(v) == [json |-> TRUE, val |-> v]

\* the transport failed (urlopen / requests.post raised)
NetFail == [json |-> FALSE, val |-> JStr("URLError")]

Bodies ==
    { NotJson,
      Json(JObj([Errors |-> JObj([Msg |-> JStr("bad input")])])),
      Json(JObj([Errors |-> JObj([Code |-> JStr("7")])])),
      Json(JObj([Errors |-> JStr("service unavailable")])),
      Json(JObj([X |-> JStr("1.0")])),
      Json(JObj([VX |-> JStr("0.01"), VY |-> JStr("0.02"), VZ |-> JStr("0.03")])),
      Json(JObj([VX |-> JStr("0.01"), VY |-> JStr("0.02")])),
      Json(JNull) }

\* the bytes of a ZIP archive; sound is FALSE when a member fails its CRC
Archive(sound) == [json |-> FALSE, val |-> [t |-> "zip", sound |-> sound]]

\* bodies of the upload's response (req.content)
UploadReplies ==
    { NotJson,
      Json(JObj([Errors |-> JObj([Msg |-> JStr("bad input")])])),
      Archive(TRUE),
      Archive(FALSE) }

\* `results_dict[key]`: the member, or the exception the subscript raises
Subscript(v, key) ==
    IF v.t = "obj"
    THEN IF key \in DOMAIN v.m THEN [exc |-> "", val |-> v.m[key]]
         ELSE [exc |-> "KeyError", val |-> JNull]
    ELSE [exc |-> "TypeError", val |-> JNull]

\* json.loads in try / except JSONDecodeError: results_dict = None
Loads(body) == IF body.json THEN body.val ELSE JNull

\* the "Print results" section: error = results_dict['Errors']['Msg'] under
\* `except KeyError`, then the result or the error is printed and the
\* script ends with sys.exit() / quit()
Interpretation(body) ==
    LET results_dict == Loads(body)
        e1 == Subscript(results_dict, "Errors")
        e2 == Subscript(e1.val, "Msg")
    IN  IF e1.exc = "TypeError" THEN Crash("TypeError")
        ELSE IF e1.exc = "KeyError" THEN [kind |-> "result", err |-> "", status |-> 0]
        ELSE IF e2.exc = "TypeError" THEN Crash("TypeError")
        ELSE IF e2.exc = "KeyError" THEN [kind |-> "result", err |-> "", status |-> 0]
        ELSE [kind |-> "service_error", err |-> e2.val.s, status |-> 0]

(***************************************************************************)
(* GPS-H.                                                                  *)
(***************************************************************************)
\* a batch check that tests the fields for absence only
GPSH_BatchRequired_AbsentOnly(a) ==
    Truthy(a.file_path) /\ None \in {a.geoid, a.ref_frame, a.epoch}

\* "For Batch Mode Processing [-f] the following arguments are required"
GPSH_BatchRequired(a) ==
    Truthy(a.file_path) /\ ~(Truthy(a.geoid) /\ Truthy(a.ref_frame) /\ Truthy(a.epoch))

\* "Projection coordinates require a zone"
GPSH_PlanNeedsZone(a) == a.proj = "plan" /\ a.zone = None

\* the check made only when no --hmode value is present
GPSH_CarHmode_Absent(a) == a.proj = "car" /\ a.hmode = None

\* "You can only convert ellipsoidal heights to orthometric heights for
\* Cartesian coordinates."
GPSH_CarHmode(a) == a.proj = "car" /\ a.hmode # None

\* the --hmode value as the user gave it
GPSH_hmode_AsGiven(a) == a.hmode

\* "--hmode turned ON" for geoid conversions
GPSH_hmode(a) == IF a.convert # None /\ a.hmode # "on" THEN "on" ELSE a.hmode

\* "Cartesian Coordinates do not work with conversion calculations."
GPSH_CarConvert(a) == a.convert # None /\ a.proj = "car"

GPSH_geoid_key(a) == IF a.geoid # None THEN FirstKey(geoid_list, a.geoid) ELSE 0

GPSH_zone(a) == IF a.zone = None THEN "" ELSE ZoneAlias(a.zone)

GPSH_convert_key(a) ==
    IF a.convert # None THEN FirstKey(conversions_dict, a.convert) ELSE 0

\* "Changes link if CONVERT is enabled."
GPSH_geoidArg(a) ==
    IF a.convert # None THEN DictGet(conversions_dict, GPSH_convert_key(a))
    ELSE DictGet(geoid_list, GPSH_geoid_key(a))

\* the model names matched in the letter case of the catalog only
GPSH_epoch_CaseSensitive(a, epoch) ==
    IF a.geoid = "HT2_2010v70" THEN "2010-01-01"
    ELSE IF a.geoid = "HT2_2002v70" THEN "2002-01-01"
    ELSE IF a.geoid = "HT2_1997" THEN "1997-01-01"
    ELSE epoch

\* the HT2 geoid models set the epoch "for standard usage"
GPSH_epoch(a, epoch) ==
    IF StrLower(a.geoid) = "ht2_2010v70" THEN "2010-01-01"
    ELSE IF StrLower(a.geoid) = "ht2_2002v70" THEN "2002-01-01"
    ELSE IF StrLower(a.geoid) = "ht2_1997" THEN "1997-01-01"
    ELSE epoch

\* "Silencing unnecessary arguments by case"
GPSH_silence(a, epoch) ==
    IF a.convert # None
    THEN [conversion_model |-> a.convert, epoch |-> "", conversion |-> "on"]
    ELSE [conversion_model |-> "", epoch |-> epoch, conversion |-> ""]

\* the script from the batch check to the "Silencing" section: the exit it
\* takes, or the values it has bound when it gets to the request
GPSH_Validation(a) ==
    IF GPSH_BatchRequired(a) THEN Fail(ExitMsg("E_BatchRequired"))
    ELSE IF a.convert = None /\ a.epoch = None THEN Fail(ExitMsg("E_EpochRequired"))
    ELSE IF GPSH_PlanNeedsZone(a) THEN Fail(ExitMsg("E_ZoneRequired"))
    ELSE IF GPSH_CarHmode(a) THEN Fail(ExitMsg("E_CarHmode"))
    ELSE IF GPSH_CarConvert(a) THEN Fail(ExitMsg("E_CarConvert"))
    ELSE IF a.convert = None /\ a.geoid = None THEN Fail(ExitMsg("E_GeoidRequired"))
    ELSE IF ~InList(rf_list, FrameAlias(a.ref_frame))
    THEN Fail(ExitListing("E_UnknownFrame", rf_list))
    ELSE IF a.zone # None /\ ~InList(zone_list, StrUpper(GPSH_zone(a)))
    THEN Fail(ExitListing("E_UnknownZone", zone_list))
    ELSE IF ~EpochResolve(a.epoch).ok THEN Fail(ExitMsg(EpochResolve(a.epoch).err))
    ELSE LET s == GPSH_silence(a, GPSH_epoch(a, EpochResolve(a.epoch).epoch))
         IN  Pass([geoidArg |-> GPSH_geoidArg(a),
                   input_frame |-> FrameAlias(a.ref_frame),
                   zone |-> GPSH_zone(a),
                   epoch |-> s.epoch,
                   proj |-> StrLower(a.proj),
                   hmode |-> GPSH_hmode(a),
                   westpos |-> StrLower(a.westpos),
                   x |-> a.x, y |-> a.y, z |-> a.height,
                   conversion_model |-> s.conversion_model,
                   conversion |-> s.conversion])

\* the vertical datum the batch form names
GPSH_v_datum(geoidArg) ==
    IF StartsWith(StrLower(geoidArg), "cgg2013") THEN "CGVD2013"
    ELSE IF StartsWith(StrLower(geoidArg), "ht2") THEN "CGVD28"
    ELSE "Others"

\* "Batch Mode Content"
GPSH_content(a, e) ==
    PostCall("/CSRS/tools/GPSH/upload",
             <<"lang", "conversionModel", "batchdestdatum", "geoidModel", "model",
               "frame", "epoch", "grav", "conversion", "file">>,
             [lang |-> "en",
              conversionModel |-> e.conversion_model,
              batchdestdatum |-> GPSH_v_datum(e.geoidArg),
              geoidModel |-> e.geoidArg,
              model |-> e.geoidArg,
              frame |-> e.input_frame,
              epoch |-> e.epoch,
              grav |-> IF a.est_gravity = "on" THEN a.est_gravity ELSE "",
              conversion |-> e.conversion],
             a.file_path)

\* "Data Call: Grabs information from URL"
GPSH_url(e) ==
    GetCall("/CSRS/tools/GPSH/" \o e.geoidArg,
            <<"dataType", "lang", "epoch", "frame", "proj", "x", "y", "z", "zone",
              "westpos", "hmode", "conversion">>,
            [dataType |-> "json", lang |-> "en",
             epoch |-> Str(e.epoch), frame |-> Str(e.input_frame),
             proj |-> Str(e.proj), x |-> Str(e.x), y |-> Str(e.y), z |-> Str(e.z),
             zone |-> Str(e.zone), westpos |-> Str(e.westpos),
             hmode |-> Str(e.hmode), conversion |-> Str(e.conversion)])

(***************************************************************************)
(* TRX.                                                                    *)
(***************************************************************************)
\* Python's `a or b`: a if a is truthy, else b
Or(a, b) == IF Truthy(a) THEN a ELSE b

\* "required for Batch Mode [-f]: -oe, -of, -df, -dc"
TRX_BatchRequired(a) ==
    /\ Truthy(a.file_path)
    /\ ~(/\ Truthy(a.epoch_trans) /\ Truthy(a.originEpoch) /\ Truthy(a.originRefFrame)
         /\ Truthy(a.destRefFrame) /\ Truthy(a.destCoord))

\* "required for TRX Single Calculations: -x, -y": `(args.x or args.y) is None`
TRX_XYRequired(a) == ~Truthy(a.file_path) /\ Or(a.x, a.y) = None

\* "You entered a destination epoch while --epoch_trans was off"
TRX_DestEpochWithoutTrans(a) == a.destEpoch # None /\ a.epoch_trans = "off"

\* `''` stands for "no destination epoch"
TRX_depoch(a) ==
    IF a.destEpoch = None THEN [ok |-> TRUE, epoch |-> "", err |-> ""]
    ELSE EpochResolve(a.destEpoch)

\* the zone of one side: None stays None, except that a Projection side
\* without a zone gets ''
TRX_zone(token, coord) ==
    IF token = None THEN (IF coord = "plan" THEN "" ELSE None) ELSE ZoneAlias(token)

\* "Require all velocities to be inputted if one is inputted":
\* `if vy or vz is not None` parses as `vy or (vz is not None)`
TRX_VelocityIncomplete(vx, vy, vz) ==
    IF vx = None THEN Truthy(vy) \/ vz # None
    ELSE IF vy = None THEN Truthy(vx) \/ vz # None
    ELSE IF vz = None THEN Truthy(vx) \/ vy # None
    ELSE FALSE

\* "If velocities are entered, do not interpolate velocities":
\* `if vx and vy and vz is not None`
TRX_vinterp(vx, vy, vz) ==
    IF Truthy(vx) /\ Truthy(vy) /\ vz # None THEN "off" ELSE "on"

\* the script from the required-argument checks to the last frame check
TRX_Validation(a) ==
    LET ozone == TRX_zone(a.originZone, StrLower(a.originCoord))
        dzone == TRX_zone(a.destZone, a.destCoord)
        vi == TRX_vinterp(a.velocityX, a.velocityY, a.velocityZ)
    IN  IF TRX_BatchRequired(a) THEN Fail(ExitMsg("E_BatchRequired"))
        ELSE IF TRX_XYRequired(a) THEN Fail(ExitMsg("E_XYRequired"))
        ELSE IF TRX_DestEpochWithoutTrans(a) THEN Fail(ExitMsg("E_DestEpochWithoutTrans"))
        ELSE IF ~EpochResolve(a.originEpoch).ok
        THEN Fail(ExitMsg(EpochResolve(a.originEpoch).err))
        ELSE IF ~TRX_depoch(a).ok THEN Fail(ExitMsg(TRX_depoch(a).err))
        ELSE IF TRX_VelocityIncomplete(a.velocityX, a.velocityY, a.velocityZ)
        THEN Fail(ExitPlain("E_IncompleteVelocity"))
        ELSE IF ~InList(rf_list, FrameAlias(a.originRefFrame))
        THEN Fail(ExitMsg("E_UnknownOriginFrame"))
        ELSE IF ~InList(rf_list, FrameAlias(a.destRefFrame))
        THEN Fail(ExitMsg("E_UnknownDestFrame"))
        ELSE IF StrLower(a.epoch_trans) = "on" /\ TRX_depoch(a).epoch = None
        THEN Fail(ExitMsg("E_DestEpochRequired"))
        ELSE IF StrLower(a.originCoord) = "plan" /\ ozone = None
        THEN Fail(ExitMsg("E_OriginZoneRequired"))
        ELSE IF ozone # None /\ ~InList(zone_list, ozone)
        THEN Fail(ExitMsg("E_UnknownOriginZone"))
        ELSE IF dzone # "" /\ dzone # None /\ ~InList(zone_list, dzone)
        THEN Fail(ExitMsg("E_UnknownDestZone"))
        ELSE Pass([ocoord |-> StrLower(a.originCoord),
                   x_input |-> a.x, y_input |-> a.y, z_input |-> a.height,
                   vx |-> a.velocityX, vy |-> a.velocityY, vz |-> a.velocityZ,
                   oepoch |-> EpochResolve(a.originEpoch).epoch,
                   depoch |-> TRX_depoch(a).epoch,
                   orefframe |-> FrameAlias(a.originRefFrame),
                   drefframe |-> FrameAlias(a.destRefFrame),
                   epoch_trans |-> StrLower(a.epoch_trans),
                   dcoord |-> a.destCoord, westpos |-> a.westPos,
                   ozone |-> ozone, dzone |-> dzone,
                   geovinterp |-> vi, carvinterp |-> vi, planvinterp |-> vi])

TRX_content(a, e) ==
    PostCall("/CSRS/tools/TRX/upload",
             <<"lang", "epochTrans", "frame", "epoch", "destframe", "destproj",
               "destepoch", "file">>,
             [lang |-> "en", epochTrans |-> e.epoch_trans, frame |-> e.orefframe,
              epoch |-> e.oepoch, destframe |-> e.drefframe, destproj |-> e.dcoord,
              destepoch |-> e.depoch],
             a.file_path)

\* "Get interpolated velocities from v7 velocity grid":
\* `epoch_trans == 'on' and (geovinterp or carvinterp or planvinterp) == 'on'`
TRX_NeedsVelocity(e) ==
    e.epoch_trans = "on" /\ Or(e.geovinterp, Or(e.carvinterp, e.planvinterp)) = "on"

TRX_url_vel(e) ==
    GetCall("/CSRS/tools/TRX/vel/" \o e.ocoord,
            <<"dataType", "epoch", "destepoch", "frame", "x", "y", "z", "destframe",
              "destproj", "westpos">>,
            [dataType |-> "json", epoch |-> Str(e.oepoch), destepoch |-> Str(e.depoch),
             frame |-> Str(e.orefframe), x |-> Str(e.x_input), y |-> Str(e.y_input),
             z |-> Str(e.z_input), destframe |-> Str(e.drefframe),
             destproj |-> Str(e.dcoord), westpos |-> Str(e.westpos)])

\* a velocity step that goes on with '' for whatever the response lacks
TRX_SetVelocity_Lenient(e, body) ==
    LET d == Loads(body)
        sx == Subscript(d, "VX")
        sy == Subscript(d, "VY")
        sz == Subscript(d, "VZ")
    IN  [exc |-> "",
         env |-> [e EXCEPT !.vx = IF sx.exc = "" THEN sx.val.s ELSE "",
                           !.vy = IF sy.exc = "" THEN sy.val.s ELSE "",
                           !.vz = IF sz.exc = "" THEN sz.val.s ELSE ""]]

\* "Set vx/vy/vz to interpolated values": the three subscripts of
\* resultsVel_dict, outside any try
TRX_SetVelocity(e, body) ==
    LET d == Loads(body)
        sx == Subscript(d, "VX")
        sy == Subscript(d, "VY")
        sz == Subscript(d, "VZ")
    IN  IF sx.exc # "" THEN [exc |-> sx.exc, env |-> e]
        ELSE IF sy.exc # "" THEN [exc |-> sy.exc, env |-> e]
        ELSE IF sz.exc # "" THEN [exc |-> sz.exc, env |-> e]
        ELSE [exc |-> "",
              env |-> [e EXCEPT !.vx = sx.val.s, !.vy = sy.val.s, !.vz = sz.val.s]]

\* "NRCan Geodetic Tools, TRX calculation"
TRX_url(e) ==
    GetCall("/CSRS/tools/TRX/calc/" \o e.ocoord,
            <<"dataType", "westpos", "epoch_trans", "frame", "epoch", "x", "y", "z",
              "zone", "geovinterp", "vx", "vy", "vz", "carvinterp", "planvinterp",
              "destframe", "destproj", "destzone", "destepoch">>,
            [dataType |-> "json", westpos |-> Str(e.westpos),
             epoch_trans |-> Str(e.epoch_trans), frame |-> Str(e.orefframe),
             epoch |-> Str(e.oepoch), x |-> Str(e.x_input), y |-> Str(e.y_input),
             z |-> Str(e.z_input), zone |-> Str(e.ozone),
             geovinterp |-> Str(e.geovinterp), vx |-> Str(e.vx), vy |-> Str(e.vy),
             vz |-> Str(e.vz), carvinterp |-> Str(e.carvinterp),
             planvinterp |-> Str(e.planvinterp), destframe |-> Str(e.drefframe),
             destproj |-> Str(e.dcoord), destzone |-> Str(e.dzone),
             destepoch |-> Str(e.depoch)])

(***************************************************************************)
(* NTv2.                                                                   *)
(***************************************************************************)
RECURSIVE AndChain(_)
\* Python's `a and b and ...`: the first operand that is not truthy, else
\* the last one
AndChain(vs) ==
    IF Len(vs) = 1 \/ ~Truthy(Head(vs)) THEN Head(vs) ELSE AndChain(Tail(vs))

\* "required to access NTv2; -g, -x, -y, -oc, -dc"
NTV2_Required(a) ==
    /\ ~Truthy(a.file_path)
    /\ AndChain(<<a.grid, a.x, a.y, a.originCoord, a.destCoord>>) = None

\* "required for Batch Processing [-f]: -g, -dc."
NTV2_BatchRequired(a) ==
    Truthy(a.file_path) /\ AndChain(<<a.grid, a.destCoord>>) = None

NTV2_ozone(a) == IF a.originZone = None THEN None ELSE ZoneAlias(a.originZone)

\* a destination zone left as it was given, without the 'UTM' default
NTV2_dzone_NoDefault(a) ==
    IF a.destZone = None THEN None ELSE ZoneAlias(a.destZone)

\* a Projection destination without a zone gets 'UTM'
NTV2_dzone(a) ==
    IF a.destZone = None THEN (IF a.destCoord = "plan" THEN "UTM" ELSE None)
    ELSE ZoneAlias(a.destZone)

\* "Checking if selected Grid is listed (Case insensitive)"
NTV2_grid(a) == DictGet(coverage_and_grid, FirstKey(coverage_and_grid, a.grid))

\* a mode that ignores --inverse
NTV2_mode_Direct(a) == "direct"

\* "Inverse Calculations"
NTV2_mode(a) == IF a.inverse = "on" THEN "inverse" ELSE "direct"

NTV2_Validation(a) ==
    IF a.grid_list THEN Fail(ExitListing("GridList", coverage_and_grid))
    ELSE IF NTV2_Required(a) THEN Fail(ExitMsg("E_Required"))
    ELSE IF NTV2_BatchRequired(a) THEN Fail(ExitMsg("E_BatchRequired"))
    ELSE IF NTV2_ozone(a) # None /\ ~InList(zone_list, NTV2_ozone(a))
    THEN Fail(ExitMsg("E_UnknownOriginZone"))
    ELSE IF NTV2_dzone(a) # "UTM" /\ NTV2_dzone(a) # None
            /\ ~InList(zone_list, NTV2_dzone(a))
    THEN Fail(ExitMsg("E_UnknownDestZone"))
    ELSE IF NTV2_grid(a) = None THEN Fail(ExitMsg("E_UnknownGrid"))
    ELSE Pass([x |-> a.x, y |-> a.y, ocoord |-> a.originCoord,
               dcoord |-> a.destCoord, westpos |-> a.westpos,
               ozone |-> NTV2_ozone(a), dzone |-> NTV2_dzone(a),
               grid |-> NTV2_grid(a), mode |-> NTV2_mode(a)])

NTV2_content(a, e) ==
    PostCall("/CSRS/tools/NTV2/upload",
             <<"lang", "grid", "destproj", "destzone", "dir", "file">>,
             [lang |-> "en", grid |-> e.grid, destproj |-> e.dcoord,
              destzone |-> e.dzone, dir |-> e.mode],
             a.file_path)

\* "Sending to Web-Service"
NTV2_url(e) ==
    GetCall("/CSRS/tools/NTV2/" \o e.mode,
            <<"dataType", "lang", "proj", "zone", "westpos", "x", "y", "grid",
              "destproj", "destzone">>,
            [dataType |-> "json", lang |-> "en", proj |-> Str(e.ocoord),
             zone |-> Str(e.ozone), westpos |-> Str(e.westpos), x |-> Str(e.x),
             y |-> Str(e.y), grid |-> Str(e.grid), destproj |-> Str(e.dcoord),
             destzone |-> Str(e.dzone)])

(***************************************************************************)
(* INDIR.                                                                  *)
(***************************************************************************)
\* "required for Batch Mode [-f]: -e, -3d"; skipped with --ellipsoid_list
INDIR_BatchRequired(a) ==
    /\ ~a.ellipsoid_list /\ Truthy(a.file_path)
    /\ ~(Truthy(a.ellipsoid) /\ Truthy(a.three_dimension))

\* "required for all usages of INDIR; -x1, -y1, -x2, -y2, -e"
INDIR_Required(a) ==
    /\ ~a.ellipsoid_list /\ ~Truthy(a.file_path)
    /\ AndChain(<<a.x1, a.y1, a.x2, a.y2, a.ellipsoid>>) = None

INDIR_ellipsoid(a) ==
    IF a.ellipsoid = None THEN None
    ELSE DictGet(ellipsoid_dict, FirstKey(ellipsoid_dict, a.ellipsoid))

INDIR_Validation(a) ==
    IF INDIR_BatchRequired(a) THEN Fail(ExitMsg("E_BatchRequired"))
    ELSE IF INDIR_Required(a) THEN Fail(ExitMsg("E_Required"))
    ELSE IF INDIR_ellipsoid(a) = None THEN Fail(ExitListing("E_UnknownEllipsoid", ellipsoid_dict))
    ELSE Pass([westpos |-> a.westpos, ellipsoid |-> INDIR_ellipsoid(a)])

INDIR_content(a, e) ==
    PostCall("/CSRS/tools/INDIR/upload",
             <<"lang", "ellipsoid", "3d", "file">>,
             ("lang" :> "en") @@ ("ellipsoid" :> e.ellipsoid)
                @@ ("3d" :> IF a.three_dimension = "true" THEN "on" ELSE "off"),
             a.file_path)

\* the point, height and direction section of a single calculation: the
\* exit it takes, or the values it binds
INDIR_Points(a) ==
    LET is3d == a.three_dimension = "true"
        z1 == IF is3d THEN a.z1 ELSE ""
    IN  IF is3d /\ a.z1 = None THEN Fail(ExitMsg("E_FirstHeightRequired"))
        ELSE IF a.indir = "direct"
        THEN IF is3d /\ Or(a.delta_h, a.z2) = None
             THEN Fail(ExitMsg("E_ZenithOrDeltaRequired"))
             ELSE Pass([x1 |-> a.x1, y1 |-> a.y1, z1 |-> z1, z2 |-> "",
                        distance |-> a.x2, azimuth |-> a.y2, x2 |-> "", y2 |-> "",
                        zenith |-> IF is3d /\ a.z2 # None THEN a.z2 ELSE "",
                        dh |-> IF is3d /\ a.delta_h # None THEN a.delta_h ELSE "",
                        mode |-> "direct"])
        ELSE IF is3d /\ a.z2 = None THEN Fail(ExitMsg("E_SecondHeightRequired"))
        ELSE Pass([x1 |-> a.x1, y1 |-> a.y1, z1 |-> z1,
                   z2 |-> IF is3d THEN a.z2 ELSE "",
                   distance |-> "", azimuth |-> "", x2 |-> a.x2, y2 |-> a.y2,
                   zenith |-> "", dh |-> "", mode |-> "inverse"])

\* no substitution: the code goes into the URL as it is in the catalog
Substitute_Raw(s) == s

RECURSIVE Substitute(_)
\* "Unicode substitution":
\* ellipsoid.replace(' ', '%20').replace('(', '%28').replace(')', '%29')
Substitute(s) ==
    IF s = "" THEN ""
    ELSE (CASE Char(s, 1) = " " -> "%20"
            [] Char(s, 1) = "(" -> "%28"
            [] Char(s, 1) = ")" -> "%29"
            [] OTHER -> Char(s, 1)) \o Substitute(SubSeq(s, 2, Len(s)))

\* "Sending to web service"; p is the record INDIR_Points binds
INDIR_url(a, e, p) ==
    GetCall("/CSRS/tools/INDIR/" \o p.mode \o "/" \o Substitute(e.ellipsoid),
            <<"dataType", "lang", "westpos", "ellipsoid", "3d", "x", "y", "z", "dis",
              "azi", "zen", "dh", "x2", "y2", "z2">>,
            ("dataType" :> "json") @@ ("lang" :> "en") @@ ("westpos" :> Str(e.westpos))
                @@ ("ellipsoid" :> Substitute(e.ellipsoid))
                @@ ("3d" :> Str(a.three_dimension))
                @@ ("x" :> Str(p.x1)) @@ ("y" :> Str(p.y1)) @@ ("z" :> Str(p.z1))
                @@ ("dis" :> Str(p.distance)) @@ ("azi" :> Str(p.azimuth))
                @@ ("zen" :> Str(p.zenith)) @@ ("dh" :> Str(p.dh))
                @@ ("x2" :> Str(p.x2)) @@ ("y2" :> Str(p.y2)) @@ ("z2" :> Str(p.z2)))

(***************************************************************************)
(* Command lines.                                                          *)
(***************************************************************************)
Min(a, b) == IF a < b THEN a ELSE b

\* the first MaxCodes codes of a catalog, as written and in either case
TokensOf(catalog) ==
    UNION { {catalog[i], StrLower(catalog[i]), StrUpper(catalog[i])} :
            i \in 1..Min(MaxCodes, Len(catalog)) }

FrameTokens == TokensOf(rf_list) \cup {"NAD83", "nad", "NadAnything", "WGS84", ""}

ZoneTokens ==
    TokensOf(zone_list) \cup {"nb", "PEI", "Pei-x", "NBanything", "utm14", "UTM61", ""}

EpochTokens ==
    { "2013-01-01", "2020-01-01", "1900-01-01", "2012-02-29", "2013-02-29", "2013-02-30",
      "2013-13-01", "2013-00-10", "0000-01-01", "2013/01/01", "13-01-2013",
      "1980", "1980.0", "1979.9", "2050", "2050.0", "2050.1", "2051", "2.05e3",
      "1e3", "nan", "-2000", " 2010 ", "2010.", "20130101", "notadate", "" }

BatchFiles == {None, "pts.csv"}

\* the namespace of a GPS-H command line that gives -x and -y only
GPSH_Defaults ==
    [x |-> "49.5", y |-> "-97.0", height |-> None, hmode |-> "off", zone |-> None,
     geoid |-> "CGG2013a", epoch |-> "1997-01-01", ref_frame |-> "NAD83",
     proj |-> "geo", convert |-> None, westpos |-> "true", est_gravity |-> "off",
     file_path |-> None, download_path |-> None]

GPSH_Inputs ==
    { [GPSH_Defaults EXCEPT !.geoid = g, !.convert = c, !.file_path = f] :
        g \in TokensOf(geoid_list) \cup {"EGM96", ""},
        c \in {None} \cup TokensOf(conversions_dict) \cup {"CGG2013_to_HT2"},
        f \in BatchFiles }
    \cup
    { [GPSH_Defaults EXCEPT !.ref_frame = r, !.zone = z, !.proj = p, !.file_path = f] :
        r \in FrameTokens, z \in {None} \cup ZoneTokens, p \in {"geo", "plan"},
        f \in BatchFiles }
    \cup
    { [GPSH_Defaults EXCEPT !.epoch = e, !.geoid = g, !.convert = c, !.file_path = f] :
        e \in EpochTokens,
        g \in {"CGG2013a", "HT2_2010v70", "ht2_2002V70", "HT2_1997", "EGM08"},
        c \in {None, "CGG2013a_HT2_2010"}, f \in BatchFiles }
    \cup
    { [GPSH_Defaults EXCEPT !.proj = p, !.hmode = h, !.convert = c, !.zone = z,
                            !.geoid = g, !.file_path = f] :
        p \in {"geo", "car", "plan"}, h \in {"on", "off"},
        c \in {None, "CGG2013a_HT2_2010", "nope"}, z \in {None, "UTM14"},
        g \in {"CGG2013a", ""}, f \in BatchFiles }
    \cup
    { [GPSH_Defaults EXCEPT !.x = x, !.y = y, !.file_path = f] :
        x \in {None, "49.5"}, y \in {None, "-97.0"}, f \in BatchFiles }

\* the namespace of a TRX command line that gives -x and -y only
TRX_Defaults ==
    [x |-> "49.5", y |-> "-97.0", height |-> "0.0", originRefFrame |-> "NAD83",
     destRefFrame |-> "NAD83", originEpoch |-> "2010-01-01", destEpoch |-> None,
     originCoord |-> "geo", destCoord |-> "geo", originZone |-> None,
     destZone |-> None, velocityX |-> None, velocityY |-> None, velocityZ |-> None,
     epoch_trans |-> "off", westPos |-> "true", file_path |-> None,
     download_path |-> None]

Velocities == {None, "", "0.01"}

TRX_Inputs ==
    { [TRX_Defaults EXCEPT !.originRefFrame = o, !.destRefFrame = d, !.file_path = f] :
        o \in FrameTokens, d \in FrameTokens, f \in BatchFiles }
    \cup
    { [TRX_Defaults EXCEPT !.originZone = oz, !.destZone = dz, !.originCoord = oc,
                           !.destCoord = dc, !.file_path = f] :
        oz \in {None} \cup ZoneTokens, dz \in {None} \cup ZoneTokens,
        oc \in {"geo", "plan"}, dc \in {"geo", "plan"}, f \in BatchFiles }
    \cup
    { [TRX_Defaults EXCEPT !.originEpoch = oe, !.destEpoch = de, !.epoch_trans = et,
                           !.file_path = f] :
        oe \in EpochTokens,
        de \in {None, "2015-01-01", "2015-02-30", "2050", "2050.1", "1979.9", "soon", ""},
        et \in {"on", "off"}, f \in BatchFiles }
    \cup
    { [TRX_Defaults EXCEPT !.velocityX = vx, !.velocityY = vy, !.velocityZ = vz,
                           !.epoch_trans = et, !.destEpoch = de, !.x = x, !.y = y,
                           !.originCoord = oc, !.file_path = f] :
        vx \in Velocities, vy \in Velocities, vz \in Velocities,
        et \in {"on", "off"}, de \in {None, "2015-01-01"},
        x \in {None, "49.5"}, y \in {None, "-97.0"}, oc \in {"geo", "car"},
        f \in BatchFiles }

\* the namespace of an NTv2 command line that gives -x and -y only
NTV2_Defaults ==
    [grid |-> "NTV2", x |-> "49.5", y |-> "-97.0", originCoord |-> "geo",
     destCoord |-> "geo", originZone |-> None, destZone |-> None,
     westpos |-> "true", inverse |-> "off", grid_list |-> FALSE,
     file_path |-> None, download_path |-> None]

NTV2_Inputs ==
    { [NTV2_Defaults EXCEPT !.grid = g, !.inverse = i, !.grid_list = gl,
                            !.x = x, !.y = y, !.file_path = f] :
        g \in TokensOf(coverage_and_grid) \cup {"NB7783v2", "nb7783V2", "NAD27", ""},
        i \in {"on", "off"}, gl \in BOOLEAN, x \in {None, "49.5"},
        y \in {None, "", "-97.0"}, f \in BatchFiles }
    \cup
    { [NTV2_Defaults EXCEPT !.originZone = oz, !.destZone = dz, !.originCoord = oc,
                            !.destCoord = dc, !.file_path = f] :
        oz \in {None} \cup ZoneTokens, dz \in {None, "UTM", "utm"} \cup ZoneTokens,
        oc \in {"geo", "plan"}, dc \in {"geo", "plan"}, f \in BatchFiles }

\* the namespace of an INDIR command line that gives the two points only
INDIR_Defaults ==
    [ellipsoid |-> "GRS80", x1 |-> "49.5", y1 |-> "-97.0", z1 |-> None,
     three_dimension |-> "false", indir |-> "direct", x2 |-> "1000.0",
     y2 |-> "45.0", z2 |-> None, delta_h |-> None, westpos |-> "true",
     ellipsoid_list |-> FALSE, file_path |-> None, download_path |-> None]

INDIR_Inputs ==
    { [INDIR_Defaults EXCEPT !.ellipsoid = e, !.ellipsoid_list = el, !.indir = d,
                             !.file_path = f] :
        e \in TokensOf(ellipsoid_dict)
              \cup {"Fisher (Mercury)", "nwl10f (wgs72)", "Clarke", "Clarke%201866", ""},
        el \in BOOLEAN, d \in {"direct", "indirect"}, f \in BatchFiles }
    \cup
    { [INDIR_Defaults EXCEPT !.three_dimension = t, !.indir = d, !.z1 = z1, !.z2 = z2,
                             !.delta_h = dh, !.x2 = x2, !.file_path = f] :
        t \in {"true", "false"}, d \in {"direct", "indirect"}, z1 \in {None, "", "250.0"},
        z2 \in {None, "", "90.0"}, dh \in {None, "", "12.5"}, x2 \in {None, "1000.0"},
        f \in BatchFiles }

\* batch command lines: the file to upload, and -dp
BatchRuns(d) ==
    { [d EXCEPT !.file_path = f, !.download_path = p] :
        f \in {"pts.csv", "pts.zip"}, p \in {None, "", "out"} }

Tools == {"GPSH", "INDIR", "NTV2", "TRX"}

Inputs(t) ==
    CASE t = "GPSH" -> GPSH_Inputs \cup BatchRuns(GPSH_Defaults)
      [] t = "INDIR" -> INDIR_Inputs \cup BatchRuns(INDIR_Defaults)
      [] t = "NTV2" -> NTV2_Inputs \cup BatchRuns(NTV2_Defaults)
      [] t = "TRX" -> TRX_Inputs \cup BatchRuns(TRX_Defaults)

\* nothing received yet
NoReply == [json |-> FALSE, val |-> JStr("")]

\* no file under that name
NoFile == [json |-> FALSE, val |-> JStr("<no file>")]

\* what the run has done to the file system: the file operations in order,
\* the content it left under result_name in the working directory (here)
\* and in the download directory (there), and the handles it holds open
NoFileOps == [ops |-> <<>>, here |-> NoFile, there |-> NoFile, open |-> {}]

\* os.chdir(file_path) and open(input_file, 'rb') find the directory of the
\* batch file missing, the file missing, or the file
Sources == {"nodir", "missing", "present"}

\* os.path.splitext: the extension, from the last dot of the name
RECURSIVE LastDot(_, _)

LastDot(s, i) ==
    IF i = 0 THEN 0
    ELSE IF SubSeq(s, i, i) = "." THEN i
    ELSE LastDot(s, i - 1)

Splitext(s) ==
    LET i == LastDot(s, Len(s))
    IN  IF i <= 1 THEN "" ELSE SubSeq(s, i, Len(s))

\* zipfile.ZipFile(result_name).testzip() in the working directory: the
\* exception it raises, "" when it returns (its value is dropped)
ZipCheck(here) ==
    IF here = NoFile THEN "FileNotFoundError"
    ELSE IF here.val.t # "zip" THEN "BadZipFile"
    ELSE ""

\* from `result_name = ...` to the end of the batch block: f is the file
\* system before, body is req.content, stale tells that result_name is
\* already there, outdir that the download directory exists
Persistence(f, a, body, stale, outdir) ==
    LET suffix == Splitext(a.file_path)
        written == [f EXCEPT !.ops = @ \o (IF stale THEN <<"remove">> ELSE <<>>)
                                       \o <<"open", "write", "close">>,
                             !.here = body]
        moved == [written EXCEPT !.ops = @ \o <<"move">>, !.here = NoFile,
                                 !.there = body]
        kept == IF Truthy(a.download_path) THEN moved ELSE written
        zip == ZipCheck(kept.here)
    IN  IF Truthy(a.download_path) /\ ~outdir
        THEN [fs |-> written, outcome |-> Crash("FileNotFoundError")]
        ELSE IF suffix # ".zip"
        THEN [fs |-> kept, outcome |-> ExitMsg("BatchCompleted")]
        ELSE IF zip = "FileNotFoundError"
        THEN [fs |-> kept, outcome |-> Crash("FileNotFoundError")]
        ELSE IF zip = "BadZipFile"
        THEN [fs |-> [kept EXCEPT !.ops = @ \o <<"open", "close">>],
              outcome |-> ExitMsg("E_BadZip")]
        ELSE [fs |-> [kept EXCEPT !.ops = @ \o <<"open">>, !.open = @ \cup {"archive"}],
              outcome |-> ExitMsg("BatchCompleted")]

(***************************************************************************)
(* The invocation.                                                         *)
(***************************************************************************)
Init ==
    /\ tool \in Tools
    /\ args \in Inputs(tool)
    /\ pc = "start"
    /\ env = <<>>
    /\ calls = <<>>
    /\ resp = NoReply
    /\ outcome = Running
    /\ fs = NoFileOps

\* the process ends with outcome o
Exit(o) == pc' = "exit" /\ outcome' = o

\* the script issues call c and blocks; the reply is r, or the transport
\* fails with exception exc.  calls keeps every call with its reply.
Issue(c, r, next, exc) ==
    /\ calls' = Append(calls, c @@ ("reply" :> r))
    /\ IF r = NetFail
       THEN Exit(Crash(exc)) /\ resp' = resp
       ELSE pc' = next /\ resp' = r /\ outcome' = outcome

\* a validation section that opens the batch file before it checks anything
Validate_OpensFirst(t, r) ==
    /\ tool = t /\ pc = "start"
    /\ env' = r.env
    /\ outcome' = r.outcome
    /\ pc' = IF r.ok THEN "validated" ELSE "exit"
    /\ fs' = IF Truthy(args.file_path)
             THEN [fs EXCEPT !.ops = Append(@, "open"), !.open = @ \cup {"source"}]
             ELSE fs
    /\ UNCHANGED <<tool, args, calls, resp>>

\* the validation section: it exits, or leaves its bindings in env
Validate(t, r) ==
    /\ tool = t /\ pc = "start"
    /\ env' = r.env
    /\ outcome' = r.outcome
    /\ pc' = IF r.ok THEN "validated" ELSE "exit"
    /\ UNCHANGED <<tool, args, calls, resp, fs>>

GPSH_Validate == Validate("GPSH", GPSH_Validation(args))

\* "<- Batch Mode Processing ->" up to requests.post
GPSH_Upload ==
    /\ tool = "GPSH" /\ pc = "validated" /\ Truthy(args.file_path)
    /\ \E src \in Sources :
           IF src = "nodir"
           THEN Exit(ExitMsg("E_NoDirectory")) /\ UNCHANGED <<calls, resp, fs>>
           ELSE IF env.geoidArg = None
           THEN Exit(Crash("AttributeError")) /\ UNCHANGED <<calls, resp, fs>>
           ELSE IF src = "missing"
           THEN Exit(Crash("FileNotFoundError")) /\ UNCHANGED <<calls, resp, fs>>
           ELSE /\ fs' = [fs EXCEPT !.ops = Append(@, "open"), !.open = @ \cup {"source"}]
                /\ \E r \in UploadReplies \cup {NetFail} :
                       Issue(GPSH_content(args, env), r, "uploaded", "ConnectionError")
    /\ UNCHANGED <<tool, args, env>>

\* the result file is written, moved and checked, and the script ends with
\* sys.exit('=> Batch Mode Processing: Completed')
Persist ==
    /\ pc = "uploaded"
    /\ \E stale \in BOOLEAN, outdir \in BOOLEAN :
           LET p == Persistence(fs, args, resp, stale, outdir)
           IN  fs' = p.fs /\ Exit(p.outcome)
    /\ UNCHANGED <<tool, args, env, calls, resp>>

\* "Service URL to NRCan software" up to urlopen(url).read()
GPSH_Single ==
    /\ tool = "GPSH" /\ pc = "validated" /\ ~Truthy(args.file_path)
    /\ IF env.geoidArg = None
       THEN Exit(Crash("TypeError")) /\ UNCHANGED <<calls, resp>>
       ELSE \E r \in Bodies \cup {NetFail} :
                Issue(GPSH_url(env), r, "received", "URLError")
    /\ UNCHANGED <<tool, args, env, fs>>

\* an interpretation that issues the request again when the service answers
\* with an error
Interpret_Retry ==
    /\ pc = "received"
    /\ IF Interpretation(resp).kind = "service_error" /\ Len(calls) < 3
       THEN pc' = "validated" /\ outcome' = outcome
       ELSE Exit(Interpretation(resp))
    /\ UNCHANGED <<tool, args, env, calls, resp, fs>>

\* "Convert JSON to dict" and "Print results"
Interpret ==
    /\ pc = "received"
    /\ Exit(Interpretation(resp))
    /\ UNCHANGED <<tool, args, env, calls, resp, fs>>

\* "<- Batch Mode Processing ->" up to requests.post
Upload(t, content) ==
    /\ tool = t /\ pc = "validated" /\ Truthy(args.file_path)
    /\ \E src \in Sources :
           IF src = "nodir"
           THEN Exit(ExitMsg("E_NoDirectory")) /\ UNCHANGED <<calls, resp, fs>>
           ELSE IF src = "missing"
           THEN Exit(Crash("FileNotFoundError")) /\ UNCHANGED <<calls, resp, fs>>
           ELSE /\ fs' = [fs EXCEPT !.ops = Append(@, "open"), !.open = @ \cup {"source"}]
                /\ \E r \in UploadReplies \cup {NetFail} :
                       Issue(content, r, "uploaded", "ConnectionError")
    /\ UNCHANGED <<tool, args, env>>

TRX_Validate == Validate("TRX", TRX_Validation(args))

TRX_Upload == Upload("TRX", TRX_content(args, env))

\* the velocity call, when the calculation needs interpolated velocities
TRX_Velocity ==
    /\ tool = "TRX" /\ pc = "validated" /\ ~Truthy(args.file_path)
    /\ TRX_NeedsVelocity(env)
    /\ \E r \in Bodies \cup {NetFail} : Issue(TRX_url_vel(env), r, "velocity", "URLError")
    /\ UNCHANGED <<tool, args, env, fs>>

\* the calculation call, after the velocity reply (if any) has been read
TRX_Calc ==
    /\ tool = "TRX" /\ ~Truthy(args.file_path)
    /\ \/ pc = "validated" /\ ~TRX_NeedsVelocity(env)
       \/ pc = "velocity"
    /\ LET v == IF pc = "velocity" THEN TRX_SetVelocity(env, resp)
                ELSE [exc |-> "", env |-> env]
       IN  IF v.exc # ""
           THEN Exit(Crash(v.exc)) /\ UNCHANGED <<env, calls, resp>>
           ELSE /\ env' = v.env
                /\ \E r \in Bodies \cup {NetFail} :
                       Issue(TRX_url(v.env), r, "received", "URLError")
    /\ UNCHANGED <<tool, args, fs>>

NTV2_Validate == Validate("NTV2", NTV2_Validation(args))

NTV2_Upload == Upload("NTV2", NTV2_content(args, env))

NTV2_Single ==
    /\ tool = "NTV2" /\ pc = "validated" /\ ~Truthy(args.file_path)
    /\ \E r \in Bodies \cup {NetFail} : Issue(NTV2_url(env), r, "received", "URLError")
    /\ UNCHANGED <<tool, args, env, fs>>

INDIR_Validate == Validate("INDIR", INDIR_Validation(args))

INDIR_Upload == Upload("INDIR", INDIR_content(args, env))

\* the height and direction checks, then the call
INDIR_Single ==
    /\ tool = "INDIR" /\ pc = "validated" /\ ~Truthy(args.file_path)
    /\ LET p == INDIR_Points(args)
       IN  IF ~p.ok
           THEN Exit(p.outcome) /\ UNCHANGED <<calls, resp>>
           ELSE \E r \in Bodies \cup {NetFail} :
                    Issue(INDIR_url(args, env, p.env), r, "received", "URLError")
    /\ UNCHANGED <<tool, args, env, fs>>

Next ==
    \/ GPSH_Validate
    \/ GPSH_Upload
    \/ GPSH_Single
    \/ TRX_Validate
    \/ TRX_Upload
    \/ TRX_Velocity
    \/ TRX_Calc
    \/ NTV2_Validate
    \/ NTV2_Upload
    \/ NTV2_Single
    \/ INDIR_Validate
    \/ INDIR_Upload
    \/ INDIR_Single
    \/ Persist
    \/ Interpret

Spec == Init /\ [][Next]_vars

(***************************************************************************)
(* Properties.                                                             *)
(***************************************************************************)
\* the validation section ended the invocation: nothing was bound, no
\* request was built
Rejected == pc = "exit" /\ env = <<>> /\ calls = <<>> /\ outcome.kind = "exit"

\* the validation section ran to its end
Passed == env # <<>>

\* a catalog with every code in lower case
Lowered(catalog) == [i \in 1..Len(catalog) |-> StrLower(catalog[i])]

rf_lower == Lowered(rf_list)

geoid_lower == Lowered(geoid_list)

zone_lower == Lowered(zone_list)

conversions_lower == Lowered(conversions_dict)

ellipsoid_lower == Lowered(ellipsoid_dict)

grid_lower == Lowered(coverage_and_grid)

\* the catalog code that token equals up to letter case, None if there is
\* none (no catalog has two codes that differ in case only)
Canon(catalog, lowered, token) ==
    LET t == StrLower(token)
        hits == {i \in 1..Len(catalog) : lowered[i] = t}
    IN  IF token = None \/ hits = {} THEN None ELSE catalog[CHOOSE i \in hits : TRUE]

Issued == {calls[i] : i \in 1..Len(calls)}

\* every issued request that has field k carries value v in it
Carries(k, v) == \A c \in Issued : k \in DOMAIN c.params => c.params[k] = v

\* every issued request carries code v: in its path (after prefix) if it is
\* a GET, in each of the fields ks if it is a POST
CarriesInPath(prefix, ks, v) ==
    \A c \in Issued :
        IF c.method = "GET" THEN c.path = prefix \o v
        ELSE \A k \in ks : c.params[k] = v

\* C1: a token that equals a catalog code up to letter case is accepted and
\* resolved to that code, and the code is the value every outgoing request
\* carries for it (all six catalogs, all four tools).
C1_CanonicalCodeInRequest ==
    /\ tool = "GPSH" =>
        /\ LET c == Canon(geoid_list, geoid_lower, args.geoid)
           IN  args.convert = None /\ c # None
                  => CarriesInPath("/CSRS/tools/GPSH/", {"geoidModel", "model"}, c)
        /\ LET c == Canon(conversions_dict, conversions_lower, args.convert)
           IN  c # None
                  => CarriesInPath("/CSRS/tools/GPSH/",
                                   {"conversionModel", "geoidModel", "model"}, c)
        /\ LET c == Canon(rf_list, rf_lower, args.ref_frame)
           IN  c # None => outcome.err # "E_UnknownFrame" /\ Carries("frame", c)
        /\ LET c == Canon(zone_list, zone_lower, args.zone)
           IN  c # None => outcome.err # "E_UnknownZone" /\ Carries("zone", c)
    /\ tool = "INDIR" =>
        LET c == Canon(ellipsoid_dict, ellipsoid_lower, args.ellipsoid)
        IN  c # None => outcome.err # "E_UnknownEllipsoid" /\ Carries("ellipsoid", c)
    /\ tool = "NTV2" =>
        /\ LET c == Canon(coverage_and_grid, grid_lower, args.grid)
           IN  c # None => outcome.err # "E_UnknownGrid" /\ Carries("grid", c)
        /\ LET c == Canon(zone_list, zone_lower, args.originZone)
           IN  c # None => outcome.err # "E_UnknownOriginZone" /\ Carries("zone", c)
        /\ LET c == Canon(zone_list, zone_lower, args.destZone)
           IN  c # None => outcome.err # "E_UnknownDestZone" /\ Carries("destzone", c)
    /\ tool = "TRX" =>
        /\ LET c == Canon(rf_list, rf_lower, args.originRefFrame)
           IN  c # None => outcome.err # "E_UnknownOriginFrame" /\ Carries("frame", c)
        /\ LET c == Canon(rf_list, rf_lower, args.destRefFrame)
           IN  c # None => outcome.err # "E_UnknownDestFrame" /\ Carries("destframe", c)
        /\ LET c == Canon(zone_list, zone_lower, args.originZone)
           IN  c # None => outcome.err # "E_UnknownOriginZone" /\ Carries("zone", c)
        /\ LET c == Canon(zone_list, zone_lower, args.destZone)
           IN  c # None => outcome.err # "E_UnknownDestZone" /\ Carries("destzone", c)

\* token is given and equals no code of the catalog, whatever the letter case
Unknown(catalog, lowered, token) ==
    token # None /\ Canon(catalog, lowered, token) = None

\* token starts with one of the alias prefixes, whatever the letter case
Aliased(token, prefixes) ==
    token # None /\ \E p \in prefixes : StartsWith(StrUpper(token), p)

\* C2: a token that is no catalog code and starts with no alias prefix ends
\* the invocation in validation, before any request is built; in particular
\* an unknown GPS-H geoid model or conversion name never gets past
\* validation.
C2_UnknownTokenRejected ==
    pc # "start" =>
        /\ tool = "GPSH" =>
            /\ (Unknown(geoid_list, geoid_lower, args.geoid) => Rejected)
            /\ (Unknown(conversions_dict, conversions_lower, args.convert) => Rejected)
            /\ (Unknown(rf_list, rf_lower, args.ref_frame)
                    /\ ~Aliased(args.ref_frame, {"NAD"}) => Rejected)
            /\ (Unknown(zone_list, zone_lower, args.zone)
                    /\ ~Aliased(args.zone, {"NB", "PEI"}) => Rejected)
        /\ tool = "INDIR" =>
            (Unknown(ellipsoid_dict, ellipsoid_lower, args.ellipsoid) => Rejected)
        /\ tool = "NTV2" =>
            /\ (Unknown(coverage_and_grid, grid_lower, args.grid) => Rejected)
            /\ (Unknown(zone_list, zone_lower, args.originZone)
                    /\ ~Aliased(args.originZone, {"NB", "PEI"}) => Rejected)
            \* "UTM" is the destination zone the tool itself fills in
            /\ (Unknown(zone_list, zone_lower, args.destZone)
                    /\ ~Aliased(args.destZone, {"NB", "PEI"})
                    /\ StrUpper(args.destZone) # "UTM" => Rejected)
        /\ tool = "TRX" =>
            /\ \A r \in {args.originRefFrame, args.destRefFrame} :
                    Unknown(rf_list, rf_lower, r) /\ ~Aliased(r, {"NAD"}) => Rejected
            /\ \A z \in {args.originZone, args.destZone} :
                    Unknown(zone_list, zone_lower, z) /\ ~Aliased(z, {"NB", "PEI"})
                        => Rejected

\* the frame (zone) the validation section bound is an entry of the catalog
\* and validating it again gives the same entry
FrameFixed(code) == FrameAlias(code) = code /\ InList(rf_list, code)

ZoneFixed(code) == ZoneAlias(code) = code /\ InList(zone_list, code)

\* the zone a token starting with an alias prefix stands for
ZoneOf(token) == IF Aliased(token, {"NB"}) THEN "NB-NAD83(CSRS)" ELSE "PEI-NAD83(CSRS)"

\* a frame token with the prefix NAD is accepted as NAD83(CSRS), bound and
\* sent as such
FrameAliasResolved(token, err, field, param) ==
    Aliased(token, {"NAD"}) =>
        /\ outcome.err # err
        /\ Passed => env[field] = "NAD83(CSRS)" /\ FrameFixed(env[field])
        /\ Carries(param, "NAD83(CSRS)")

\* a zone token with the prefix NB or PEI is accepted as the zone the prefix
\* stands for, bound and sent as such
ZoneAliasResolved(token, err, field, param) ==
    Aliased(token, {"NB", "PEI"}) =>
        /\ outcome.err # err
        /\ Passed => env[field] = ZoneOf(token) /\ ZoneFixed(env[field])
        /\ Carries(param, ZoneOf(token))

\* C3: alias resolution ignores the rest of the token: a frame token starting
\* with NAD (in any letter case) resolves to NAD83(CSRS), a zone token starting
\* with NB to NB-NAD83(CSRS) and one starting with PEI to PEI-NAD83(CSRS);
\* the resolved code resolves to itself; in GPS-H, NTv2 and TRX alike.
C3_AliasResolution ==
    /\ tool = "GPSH" =>
        /\ FrameAliasResolved(args.ref_frame, "E_UnknownFrame", "input_frame", "frame")
        /\ ZoneAliasResolved(args.zone, "E_UnknownZone", "zone", "zone")
    /\ tool = "NTV2" =>
        /\ ZoneAliasResolved(args.originZone, "E_UnknownOriginZone", "ozone", "zone")
        /\ ZoneAliasResolved(args.destZone, "E_UnknownDestZone", "dzone", "destzone")
    /\ tool = "TRX" =>
        /\ FrameAliasResolved(args.originRefFrame, "E_UnknownOriginFrame",
                              "orefframe", "frame")
        /\ FrameAliasResolved(args.destRefFrame, "E_UnknownDestFrame",
                              "drefframe", "destframe")
        /\ ZoneAliasResolved(args.originZone, "E_UnknownOriginZone", "ozone", "zone")
        /\ ZoneAliasResolved(args.destZone, "E_UnknownDestZone", "dzone", "destzone")

\* a TRX request went out for frames and zones given by prefix only, in
\* letter cases the catalog does not use
C3_Witness ==
    /\ tool = "TRX" /\ calls # <<>>
    /\ args.originZone = "nb" /\ args.destZone = "Pei-x"
    /\ calls[1].params["zone"] = "NB-NAD83(CSRS)"
    /\ calls[1].params["destzone"] = "PEI-NAD83(CSRS)"
    /\ calls[1].params["frame"] = "NAD83(CSRS)"

\* the epoch strings by the outcome the rule gives them: real calendar dates
\* and decimal years from 1980 to 2050,
EpochAccepted ==
    { "2013-01-01", "2020-01-01", "1900-01-01", "2012-02-29", "2015-01-01",
      "1997-01-01", "2010-01-01", "1980", "1980.0", "2050", "2050.0", "2.05e3", " 2010 ", "2010." }

\* numbers outside the span,
EpochOutOfRange == { "1979.9", "2050.1", "2051", "1e3", "-2000", "20130101", "nan" }

\* and everything else, dates that do not exist included
EpochBadFormat ==
    { "2013-02-29", "2013-02-30", "2015-02-30", "2013-13-01", "2013-00-10",
      "0000-01-01", "2013/01/01", "13-01-2013", "notadate", "soon", "" }

EpochErrors == {"E_EpochRange", "E_EpochFormat"}

\* the error the rule gives a raw epoch string, "" if it accepts it
EpochExpected(raw) ==
    IF raw \in EpochAccepted THEN ""
    ELSE IF raw \in EpochOutOfRange THEN "E_EpochRange"
    ELSE "E_EpochFormat"

\* exactly one outcome for each string
EpochTabled(raw) ==
    /\ raw \in EpochAccepted \cup EpochOutOfRange \cup EpochBadFormat
    /\ EpochAccepted \cap EpochOutOfRange = {}
    /\ EpochAccepted \cap EpochBadFormat = {}
    /\ EpochOutOfRange \cap EpochBadFormat = {}

\* the checks a GPS-H command line passes before its epoch is looked at
GPSH_BeforeEpoch ==
    {"E_BatchRequired", "E_EpochRequired", "E_ZoneRequired", "E_CarHmode",
     "E_CarConvert", "E_GeoidRequired", "E_UnknownFrame", "E_UnknownZone"}

\* the checks a TRX command line passes before its epochs are looked at
TRX_BeforeEpoch == {"E_BatchRequired", "E_XYRequired", "E_DestEpochWithoutTrans"}

\* the origin epoch is resolved first, the destination epoch (if given) next
TRX_EpochExpected ==
    IF EpochExpected(args.originEpoch) # "" THEN EpochExpected(args.originEpoch)
    ELSE IF args.destEpoch # None THEN EpochExpected(args.destEpoch)
    ELSE ""

\* C4: epoch resolution gives every raw epoch string exactly one outcome: a
\* YYYY-MM-DD string that is a real calendar date is accepted and kept
\* unchanged; otherwise a string that parses as a number is accepted
\* unchanged iff 1980 <= v <= 2050 and fails as out of range if not; every
\* other string fails as badly formatted.  The GPS-H epoch and the TRX origin
\* and destination epochs follow the same rule.
C4_EpochClassification ==
    /\ tool = "GPSH" =>
        /\ EpochTabled(args.epoch)
        /\ pc # "start" /\ outcome.err \notin GPSH_BeforeEpoch =>
            IF EpochExpected(args.epoch) # ""
            THEN Rejected /\ outcome.err = EpochExpected(args.epoch)
            ELSE /\ outcome.err \notin EpochErrors
                 /\ Passed
                 /\ args.convert = None /\ GPSH_epoch(args, "") = ""
                        => env.epoch = args.epoch
    /\ tool = "TRX" =>
        /\ EpochTabled(args.originEpoch)
        /\ args.destEpoch # None => EpochTabled(args.destEpoch)
        /\ pc # "start" /\ outcome.err \notin TRX_BeforeEpoch =>
            IF TRX_EpochExpected # ""
            THEN Rejected /\ outcome.err = TRX_EpochExpected
            ELSE /\ outcome.err \notin EpochErrors
                 /\ Passed =>
                        /\ env.oepoch = args.originEpoch
                        /\ args.destEpoch # None => env.depoch = args.destEpoch

\* TRX took an origin epoch on the upper bound and turned down a destination
\* epoch just above it
C4_Witness ==
    /\ tool = "TRX" /\ pc = "exit"
    /\ args.originEpoch = "2050.0" /\ args.destEpoch = "2050.1"
    /\ outcome.err = "E_EpochRange"

\* the epoch a geoid model is tied to, None for a model tied to none
MandatedEpoch(code) ==
    IF code = "HT2_2010v70" THEN "2010-01-01"
    ELSE IF code = "HT2_2002v70" THEN "2002-01-01"
    ELSE IF code = "HT2_1997" THEN "1997-01-01"
    ELSE None

\* C5: in a GPS-H height conversion (no --convert) the epoch of the outgoing
\* single-point call and of the batch upload is the epoch the geoid model is
\* tied to when the model is HT2_2010v70, HT2_2002v70 or HT2_1997 (in any
\* letter case), whatever valid epoch the user gave; for every other geoid
\* model it is the user's epoch.
C5_FixedEpochOverride ==
    tool = "GPSH" /\ args.convert = None =>
        LET forced == MandatedEpoch(Canon(geoid_list, geoid_lower, args.geoid))
        IN  \A c \in Issued :
                c.params["epoch"] = IF forced # None THEN forced ELSE args.epoch

\* a single-point call and a batch upload went out for a model written in
\* another letter case and a user epoch other than the model's
C5_Witness ==
    /\ tool = "GPSH" /\ args.convert = None /\ calls # <<>>
    /\ args.geoid = "ht2_2002V70" /\ args.epoch = "2020-01-01"
    /\ calls[1].params["epoch"] = "2002-01-01"

\* how many of -vx, -vy, -vz the command line gave
VelocitiesSupplied ==
    Cardinality({k \in {"velocityX", "velocityY", "velocityZ"} : args[k] # None})

\* C6: TRX velocity input is all-or-nothing: when exactly one or exactly two
\* of -vx, -vy, -vz are supplied (whatever their values, empty strings
\* included) the invocation ends in validation, before any network call; when
\* none or all three are supplied the velocity check passes.
C6_VelocityAllOrNothing ==
    tool = "TRX" /\ pc # "start" =>
        IF VelocitiesSupplied \in {1, 2} THEN Rejected
        ELSE outcome.err # "E_IncompleteVelocity"

\* the positions of the velocity-interpolation calls and of the calculation
\* calls among the requests issued
VelCalls == {i \in 1..Len(calls) : calls[i].path = "/CSRS/tools/TRX/vel/" \o args.originCoord}

CalcCalls == {i \in 1..Len(calls) : calls[i].path = "/CSRS/tools/TRX/calc/" \o args.originCoord}

\* call i carries in vx, vy, vz the VX, VY, VZ that call j was answered with
Spliced(i, j) ==
    LET d == Loads(calls[j].reply)
    IN  /\ d.t = "obj" /\ {"VX", "VY", "VZ"} \subseteq DOMAIN d.m
        /\ calls[i].params["vx"] = d.m["VX"].s
        /\ calls[i].params["vy"] = d.m["VY"].s
        /\ calls[i].params["vz"] = d.m["VZ"].s

\* C7: in a single-point TRX run with epoch transformation on and no velocity
\* supplied, a velocity-interpolation call goes out strictly before the
\* calculation call and the calculation call carries the VX, VY, VZ it
\* returned; in a run with epoch transformation off or with all three
\* velocities supplied no velocity-interpolation call goes out and the
\* user's velocities are sent unchanged.
C7_VelocityPreStep ==
    tool = "TRX" /\ args.file_path = None =>
        /\ args.epoch_trans = "on" /\ VelocitiesSupplied = 0 =>
                \A i \in CalcCalls : \E j \in VelCalls : j < i /\ Spliced(i, j)
        /\ args.epoch_trans = "off" \/ VelocitiesSupplied = 3 =>
                /\ VelCalls = {}
                /\ \A i \in CalcCalls :
                        /\ calls[i].params["vx"] = Str(args.velocityX)
                        /\ calls[i].params["vy"] = Str(args.velocityY)
                        /\ calls[i].params["vz"] = Str(args.velocityZ)

\* the original wording of C8: Cartesian coordinates with height mode on are
\* always turned down with the incompatible-options error
C8_CarHmodeIncompatible ==
    tool = "GPSH" /\ args.proj = "car" /\ args.hmode = "on" /\ pc # "start" =>
        Rejected /\ outcome.err = "E_CarHmode"

\* C8: GPS-H turns down every command line with Cartesian coordinates
\* (-p car) and height mode on (--hmode on) before any network call, with the
\* incompatible-options error, except that a batch command line lacking one
\* of --geoid, --ref_frame, --epoch is turned down with the batch
\* required-arguments error, which is checked first.
C8_CarHmodeRejected ==
    tool = "GPSH" /\ args.proj = "car" /\ args.hmode = "on" /\ pc # "start" =>
        /\ Rejected
        /\ outcome.err =
              IF args.file_path # None /\ "" \in {args.geoid, args.ref_frame, args.epoch}
              THEN "E_BatchRequired" ELSE "E_CarHmode"

\* a Cartesian single calculation with height mode on ended on the
\* incompatible-options error
C8_Witness ==
    /\ tool = "GPSH" /\ args.proj = "car" /\ args.hmode = "on"
    /\ args.file_path = None /\ args.convert = None
    /\ pc = "exit" /\ outcome = ExitMsg("E_CarHmode") /\ calls = <<>>

\* the original wording of C9: with --convert, Cartesian coordinates end in a
\* hard error and every other outgoing request carries hmode = 'on' and
\* conversion = 'on'
C9_ConvertCarriesHmode ==
    tool = "GPSH" /\ args.convert # None /\ pc # "start" =>
        IF args.proj = "car" THEN Rejected /\ outcome.status = 1
        ELSE \A c \in Issued :
                /\ "hmode" \in DOMAIN c.params /\ c.params["hmode"] = "on"
                /\ c.params["conversion"] = "on"

\* C9: when GPS-H is asked for a geoid-to-geoid conversion (--convert),
\* Cartesian coordinates end the invocation with a hard error; otherwise the
\* single-point call carries hmode = 'on' and conversion = 'on' whatever
\* --hmode the user gave, and the batch upload, which has no hmode field,
\* carries conversion = 'on'.
C9_ConvertRequest ==
    tool = "GPSH" /\ args.convert # None /\ pc # "start" =>
        IF args.proj = "car" THEN Rejected /\ outcome.status = 1
        ELSE \A c \in Issued :
                /\ c.params["conversion"] = "on"
                /\ IF c.method = "GET" THEN c.params["hmode"] = "on"
                   ELSE "hmode" \notin DOMAIN c.params

\* a conversion asked for with --hmode off went out as a single-point call
\* with height mode on
C9_Witness ==
    /\ tool = "GPSH" /\ args.convert # None /\ args.hmode = "off"
    /\ calls # <<>> /\ calls[1].method = "GET"
    /\ calls[1].params["hmode"] = "on" /\ calls[1].params["conversion"] = "on"

\* a Projection side without a zone ends the invocation in validation, with
\* the error naming the side unless an earlier check fails first; any other
\* side without a zone never gets that error
ZoneRequiredIffPlan(coord, zone, errs) ==
    zone = None /\ pc # "start" =>
        IF coord = "plan" THEN Rejected ELSE outcome.err \notin errs

\* C10: in GPS-H, NTv2 and TRX a side (origin, or destination where the tool
\* has one) in Projection coordinates ('plan') with no zone supplied ends the
\* invocation with a hard error naming that side, and no request is built; a
\* zone is required only when the side is Projection.
C10_PlanNeedsZone ==
    /\ tool = "GPSH" =>
        ZoneRequiredIffPlan(args.proj, args.zone, {"E_ZoneRequired"})
    /\ tool \in {"NTV2", "TRX"} =>
        /\ ZoneRequiredIffPlan(args.originCoord, args.originZone,
                               {"E_OriginZoneRequired", "E_UnknownOriginZone"})
        /\ ZoneRequiredIffPlan(args.destCoord, args.destZone,
                               {"E_DestZoneRequired", "E_UnknownDestZone"})

HeightErrors ==
    {"E_FirstHeightRequired", "E_ZenithOrDeltaRequired", "E_SecondHeightRequired"}

\* the height error an INDIR single calculation is to end with, "" for none;
\* a value is absent when its option was not given
HeightExpected ==
    IF args.three_dimension # "true" THEN ""
    ELSE IF args.z1 = None THEN "E_FirstHeightRequired"
    ELSE IF args.indir = "direct"
    THEN (IF args.z2 = None /\ args.delta_h = None THEN "E_ZenithOrDeltaRequired" ELSE "")
    ELSE (IF args.z2 = None THEN "E_SecondHeightRequired" ELSE "")

\* C11: an INDIR single calculation with 3D on is a hard error if -z1 is
\* absent; in direct mode iff -z2 and -dh are both absent; in inverse mode iff
\* -z2 is absent.  Every other 3D case, and every case with 3D off, passes
\* these checks.
C11_HeightChecks ==
    tool = "INDIR" /\ args.file_path = None /\ Passed
            /\ pc \notin {"start", "validated"} =>
        IF HeightExpected # ""
        THEN calls = <<>> /\ outcome = ExitMsg(HeightExpected)
        ELSE outcome.err \notin HeightErrors

\* the single-point requests issued
SingleCalls == {c \in Issued : c.method = "GET"}

\* request c has every parameter of pairs, and has '' for each one whose
\* option (the first of the pair) the command line did not give
AbsentSentEmpty(c, pairs) ==
    \A pr \in pairs :
        /\ pr[2] \in DOMAIN c.params
        /\ args[pr[1]] = None => c.params[pr[2]] = ""

\* C12: a parameter that is absent when a single-point request is built (a
\* coordinate, zone, velocity component or destination epoch not supplied)
\* is in the query string with the empty string as its value: never left
\* out, never any other placeholder text; in GPS-H, INDIR, NTv2 and TRX.
C12_AbsentSentEmpty ==
    \A c \in SingleCalls :
        /\ \A k \in DOMAIN c.params : c.params[k] # "None"
        /\ tool = "GPSH" =>
            AbsentSentEmpty(c, {<<"x", "x">>, <<"y", "y">>, <<"height", "z">>,
                                <<"zone", "zone">>})
        /\ tool = "INDIR" =>
            AbsentSentEmpty(c, {<<"z1", "z">>, <<"z2", "z2">>, <<"delta_h", "dh">>})
        /\ tool = "NTV2" =>
            AbsentSentEmpty(c, {<<"x", "x">>, <<"y", "y">>, <<"originZone", "zone">>})
        /\ tool = "TRX" =>
            /\ AbsentSentEmpty(c, {<<"x", "x">>, <<"y", "y">>, <<"destEpoch", "destepoch">>})
            /\ c.path = "/CSRS/tools/TRX/calc/" \o args.originCoord =>
                /\ AbsentSentEmpty(c, {<<"originZone", "zone">>, <<"destZone", "destzone">>})
                /\ VelCalls = {} =>
                    AbsentSentEmpty(c, {<<"velocityX", "vx">>, <<"velocityY", "vy">>,
                                        <<"velocityZ", "vz">>})

\* C13: response interpretation never raises: when the body of a
\* single-point response (the main call of any tool, or the TRX velocity
\* call) is not parseable JSON, the invocation ends in the 'unparseable'
\* outcome, with no error and no result, not with an unhandled fault.
C13_UnparseableIsTerminal ==
    pc = "exit" /\ (\E c \in SingleCalls : c.reply = NotJson) =>
        /\ outcome.kind \notin {"crash", "service_error", "result"}
        /\ outcome.err = ""

\* the last request issued is a main single-point call and its response, a
\* JSON object, has been interpreted
ObjectInterpreted ==
    /\ pc = "exit" /\ calls # <<>>
    /\ LET c == calls[Len(calls)]
       IN  /\ c.method = "GET" /\ ~StartsWith(c.path, "/CSRS/tools/TRX/vel/")
           /\ c.reply.json /\ c.reply.val.t = "obj"

\* the JSON object d has the path Errors.Msg
HasErrorsMsg(d) ==
    /\ "Errors" \in DOMAIN d.m
    /\ d.m["Errors"].t = "obj"
    /\ "Msg" \in DOMAIN d.m["Errors"].m

\* C14: for every parsed JSON object a single-point call returns, exactly one
\* of error and result is produced: the error equal to the Msg value (and no
\* result) if the object has the path Errors.Msg, the result (the whole
\* object, and no error) otherwise.
C14_ErrorXorResult ==
    ObjectInterpreted =>
        LET d == calls[Len(calls)].reply.val
        IN  IF HasErrorsMsg(d)
            THEN outcome.kind = "service_error" /\ outcome.err = d.m["Errors"].m["Msg"].s
            ELSE outcome.kind = "result" /\ outcome.err = ""

\* the batch uploads issued
UploadCalls == {c \in Issued : c.method = "POST"}

\* the body is the text of an error object {"Errors": {"Msg": ...}}
ErrorBody(b) == b.json /\ b.val.t = "obj" /\ HasErrorsMsg(b.val)

\* C15: a batch run whose upload is answered by an error object
\* {"Errors": {"Msg": ...}} does not end with the completion message and
\* leaves that body in no result file, neither in the working directory nor
\* in the download directory.
C15_BatchErrorNotPersisted ==
    \A c \in UploadCalls :
        pc = "exit" /\ ErrorBody(c.reply) =>
            /\ outcome # ExitMsg("BatchCompleted")
            /\ fs.here # c.reply /\ fs.there # c.reply

\* the messages of the validation sections
ValidationErrors ==
    { "E_BatchRequired", "E_Required", "E_XYRequired", "E_EpochRequired",
      "E_GeoidRequired", "E_ZoneRequired", "E_OriginZoneRequired",
      "E_DestEpochRequired", "E_DestEpochWithoutTrans", "E_CarHmode",
      "E_CarConvert", "E_EpochRange", "E_EpochFormat", "E_IncompleteVelocity",
      "E_UnknownFrame", "E_UnknownOriginFrame", "E_UnknownDestFrame",
      "E_UnknownZone", "E_UnknownOriginZone", "E_UnknownDestZone",
      "E_UnknownGrid", "E_UnknownEllipsoid", "E_FirstHeightRequired",
      "E_ZenithOrDeltaRequired", "E_SecondHeightRequired" }

\* the invocation was ended by a validation error
ValidationEnded == outcome.kind = "exit" /\ outcome.err \in ValidationErrors

\* C16: in every state of every run of the four tools, if the invocation was
\* ended by a validation error then no network call has been issued and no
\* file has been opened, written, removed or moved; as calls and file
\* operations are never undone, a validation error never follows a call.
C16_ValidationBeforeEffects ==
    ValidationEnded => calls = <<>> /\ fs = NoFileOps

\* a batch run and a single-point run each ended by a validation error: the
\* INDIR height check is the last validation before a call
C16_Witness ==
    /\ pc = "exit" /\ ValidationEnded
    /\ \/ Truthy(args.file_path)
       \/ tool = "INDIR" /\ outcome.err = "E_SecondHeightRequired"

\* the run printed a result, or reported the batch as completed
Succeeded == outcome.kind = "result" \/ outcome.err = "BatchCompleted"

\* the transport of a request failed
NetworkFailed == outcome.kind = "crash" /\ outcome.err \in {"URLError", "ConnectionError"}

\* C17: the exit status tells success, validation failure and network
\* failure apart.  A single-point run that prints its result ends with
\* status 0, so every successful run (single-point or batch) ends with 0,
\* every run ended by a validation error with one other status (1, the
\* status of sys.exit(message)), and every run ended by a transport failure
\* with a status that is neither of the two.
C17_StatusDistinguishes ==
    pc = "exit" =>
        /\ Succeeded => outcome.status = 0
        /\ ValidationEnded => outcome.status = 1
        /\ NetworkFailed => outcome.status \notin {0, 1}

\* the run has written the upload's body to the result file
Written == \E i \in 1..Len(fs.ops) : fs.ops[i] = "write"

\* the result file where it resides: in the download directory once it has
\* been moved, in the working directory otherwise
ResultFile == IF fs.there # NoFile THEN fs.there ELSE fs.here

\* the content is a ZIP archive and every member passes its CRC
WellFormed(b) == b.val.t = "zip" /\ b.val.sound

\* C18: in a finished batch run of a .zip file that has written its result
\* (and moved it, when a download path is given), completion is reported
\* only if the result file, where it resides, is a well-formed archive, and
\* a result file that is not a well-formed archive ends the run with the
\* bad-archive error.
C18_ZipCheckedBeforeCompletion ==
    /\ pc = "exit" /\ Written /\ Splitext(args.file_path) = ".zip"
    /\ Truthy(args.download_path) => fs.there # NoFile
    =>
    /\ outcome = ExitMsg("BatchCompleted") => WellFormed(ResultFile)
    /\ ~WellFormed(ResultFile) => outcome = ExitMsg("E_BadZip")

\* the position of a control point in the flow validation, velocity call,
\* main request, interpretation or persistence, exit
Rank(p) ==
    CASE p = "start" -> 0
      [] p = "validated" -> 1
      [] p = "velocity" -> 2
      [] p \in {"received", "uploaded"} -> 3
      [] p = "exit" -> 4

IsVelocityCall(c) == c.method = "GET" /\ StartsWith(c.path, "/CSRS/tools/TRX/vel/")

VelocityAt == {i \in 1..Len(calls) : IsVelocityCall(calls[i])}

MainAt == {i \in 1..Len(calls) : ~IsVelocityCall(calls[i])}

\* at most one velocity call, before at most one main request; a batch file
\* path selects the upload and nothing else, its absence the single-point
\* calls; a request whose transport failed is the last one and ends the
\* run; a result or a service error is reported only for a main request
CallShape ==
    /\ Cardinality(VelocityAt) <= 1 /\ Cardinality(MainAt) <= 1
    /\ \A i \in VelocityAt, j \in MainAt : i < j
    /\ Truthy(args.file_path) => \A c \in Issued : c.method = "POST"
    /\ ~Truthy(args.file_path) => \A c \in Issued : c.method = "GET"
    /\ \A i \in 1..Len(calls) :
           calls[i].reply = NetFail => i = Len(calls) /\ pc = "exit"
    /\ outcome.kind \in {"result", "service_error"} => MainAt # {}
    /\ outcome.err = "BatchCompleted" => MainAt # {}

\* C19: every invocation follows validation, at most one velocity call, at
\* most one main request (a single-point call or an upload, never both),
\* interpretation: every step moves forward in that order, no request is
\* issued a second time, and the invocation terminates: once validation has
\* passed a step is possible in every state but the exit, and every step
\* moves the control point forward, so no run takes more than four steps.
C19_BoundedFlow ==
    /\ [](CallShape)
    /\ [](pc \notin {"start", "exit"} => ENABLED Next)
    /\ [][Rank(pc') > Rank(pc) /\ Len(calls') <= Len(calls) + 1]_vars

\* a TRX run that issued the velocity call, then the calculation call, and
\* printed the result
C19_Witness ==
    /\ pc = "exit" /\ outcome.kind = "result"
    /\ VelocityAt = {1} /\ MainAt = {2}

\* the command line gives no batch file and lacks a required coordinate
MissingCoordinate ==
    /\ ~Truthy(args.file_path)
    /\ IF tool = "INDIR"
       THEN None \in {args.x1, args.y1, args.x2, args.y2}
       ELSE None \in {args.x, args.y}

\* C20: a single-point invocation that lacks a required coordinate (-x or -y
\* in TRX, GPS-H and NTv2; -x1, -y1, -x2 or -y2 in INDIR) never issues a
\* request, and ends in the validation section with an error message.
C20_CoordinatesRequired ==
    MissingCoordinate =>
        /\ calls = <<>>
        /\ pc \notin {"start", "validated"} => Rejected

\* the fields a batch run of the tool requires
BatchFields ==
    CASE tool = "GPSH" -> {"geoid", "ref_frame", "epoch"}
      [] tool = "NTV2" -> {"grid", "destCoord"}
      [] tool = "TRX" -> {"epoch_trans", "originEpoch", "originRefFrame",
                          "destRefFrame", "destCoord"}
      [] tool = "INDIR" -> {}

\* a batch command line with a required field absent or empty
BatchFieldMissing ==
    Truthy(args.file_path) /\ \E k \in BatchFields : ~Truthy(args[k])

\* the run only asks for the list of grids
ListRequested == tool = "NTV2" /\ args.grid_list

CatalogOf(e) ==
    CASE e \in {"E_UnknownFrame", "E_UnknownOriginFrame", "E_UnknownDestFrame"} -> rf_list
      [] e \in {"E_UnknownZone", "E_UnknownOriginZone", "E_UnknownDestZone"} -> zone_list
      [] e = "E_UnknownGrid" -> coverage_and_grid
      [] e = "E_UnknownEllipsoid" -> ellipsoid_dict

UnknownTokenErrors ==
    { "E_UnknownFrame", "E_UnknownOriginFrame", "E_UnknownDestFrame", "E_UnknownZone",
      "E_UnknownOriginZone", "E_UnknownDestZone", "E_UnknownGrid", "E_UnknownEllipsoid" }

\* C22: a run ended because a token matches no code of a catalog reports,
\* with the error, the full list of the codes of that catalog; in every
\* tool and for every catalog.
C22_ErrorListsCatalog ==
    pc = "exit" /\ outcome.err \in UnknownTokenErrors =>
        Listed(outcome) = CatalogOf(outcome.err)

PlaceholderGiven == args.destZone # None /\ StrUpper(args.destZone) = "UTM"

Contains(s, sub) ==
    \E i \in 1..(Len(s) - Len(sub) + 1) : SubSeq(s, i, i + Len(sub) - 1) = sub

RECURSIVE LastSlash(_, _)

LastSlash(s, i) ==
    IF i = 0 THEN 0
    ELSE IF SubSeq(s, i, i) = "/" THEN i
    ELSE LastSlash(s, i - 1)

\* the last segment of a URL path: the catalog code of the request
CodeSegment(path) == SubSeq(path, LastSlash(path, Len(path)) + 1, Len(path))

\* the codes of the catalog that the token matches, letter case aside
CodesMatching(catalog, token) ==
    {catalog[i] : i \in {j \in 1..Len(catalog) : StrLower(catalog[j]) = StrLower(token)}}

\* the escapes the URL uses for the characters a catalog code may hold
Escapes == {<<" ", "%20">>, <<"(", "%28">>, <<")", "%29">>}

\* the path segment holds code with each space and parenthesis escaped
EscapedIn(segment, code) ==
    \A e \in Escapes :
        /\ ~Contains(segment, e[1])
        /\ Contains(code, e[1]) => Contains(segment, e[2])

\* C24: every catalog code placed in the path of a single-point URL is
\* percent-encoded: the path segment INDIR builds for an ellipsoid of the
\* catalog has no raw space, '(' or ')' and has %20, %28, %29 in their
\* place, and the path segment GPS-H builds from a geoid or conversion
\* code of its catalogs has no raw space or parenthesis either.
C24_PathCodesEncoded ==
    \A c \in SingleCalls :
        /\ tool = "INDIR" =>
               \A code \in CodesMatching(ellipsoid_dict, args.ellipsoid) :
                   EscapedIn(CodeSegment(c.path), code)
        /\ tool = "GPSH" =>
               \A code \in CodesMatching(geoid_list, CodeSegment(c.path))
                           \cup CodesMatching(conversions_dict, CodeSegment(c.path)) :
                   EscapedIn(CodeSegment(c.path), code)

\* INDIR has sent a request for an ellipsoid with a space and parentheses
C24_Witness ==
    /\ tool = "INDIR" /\ "Fisher (Mercury)" \in CodesMatching(ellipsoid_dict, args.ellipsoid)
    /\ \E c \in SingleCalls : CodeSegment(c.path) = "Fisher%20%28Mercury%29"

\* the result file is opened just before the body is written and closed
\* just after
WriteScoped ==
    \A i \in 1..Len(fs.ops) :
        fs.ops[i] = "write" =>
            /\ i > 1 /\ fs.ops[i - 1] = "open"
            /\ i < Len(fs.ops) /\ fs.ops[i + 1] = "close"

\* C25: in batch mode the result file is open only while the response body
\* is persisted, and when the invocation has ended, on whatever path
\* (upload answered, transport failure, move failure, bad archive), no file
\* handle is open any more: the source file opened for the upload has been
\* closed.
C25_HandlesClosed ==
    /\ WriteScoped
    /\ pc = "exit" => fs.open = {}

\* every parameter of ks is empty in request c
AllEmpty(c, ks) == \A k \in ks : c.params[k] = ""

\* the shape of an INDIR single-point request c
INDIR_Shape(c) ==
    /\ IF args.indir = "indirect"
       THEN /\ StartsWith(c.path, "/CSRS/tools/INDIR/inverse/")
            /\ c.params["x2"] = Str(args.x2) /\ c.params["y2"] = Str(args.y2)
            /\ args.three_dimension = "true" => c.params["z2"] = Str(args.z2)
            /\ AllEmpty(c, {"dis", "azi", "zen", "dh"})
       ELSE /\ StartsWith(c.path, "/CSRS/tools/INDIR/direct/")
            /\ c.params["dis"] = Str(args.x2) /\ c.params["azi"] = Str(args.y2)
            /\ args.three_dimension = "true" =>
                   /\ c.params["zen"] = (IF args.z2 = None THEN "" ELSE args.z2)
                   /\ c.params["dh"] = (IF args.delta_h = None THEN "" ELSE args.delta_h)
            /\ AllEmpty(c, {"x2", "y2", "z2"})
    /\ AllEmpty(c, {"dis", "azi", "zen", "dh"}) \/ AllEmpty(c, {"x2", "y2", "z2"})
    /\ args.three_dimension # "true" => AllEmpty(c, {"z", "z2", "zen", "dh"})

\* the shape of an NTv2 request c
NTV2_Shape(c) ==
    LET dir == IF args.inverse = "on" THEN "inverse" ELSE "direct"
    IN  IF c.method = "GET" THEN c.path = "/CSRS/tools/NTV2/" \o dir
        ELSE c.params["dir"] = dir

\* C26: the direction flag fixes the shape of the request.  INDIR: indirect
\* selects path inverse and sends x2, y2 (z2 when 3D) with dis, azi, zen, dh
\* empty; direct selects path direct and sends dis, azi (zen, dh when 3D)
\* with x2, y2, z2 empty; the two groups are never both non-empty; with 3D
\* off z, z2, zen and dh are empty.  NTv2: --inverse on selects path
\* inverse, otherwise direct, and the same value is the batch field dir.
C26_DirectionShapes ==
    /\ tool = "INDIR" => \A c \in SingleCalls : INDIR_Shape(c)
    /\ tool = "NTV2" => \A c \in Issued : NTV2_Shape(c)

\* an indirect 3D request of INDIR that carries the second height
C26_Witness ==
    /\ tool = "INDIR" /\ args.indir = "indirect" /\ args.three_dimension = "true"
    /\ \E c \in SingleCalls : c.params["z2"] = "90.0" /\ c.params["z"] = "250.0"

\* C27: a GPS-H height-conversion run (no --convert) with Cartesian
\* coordinates and height mode off is never ended by one of the two
\* Cartesian errors (Cartesian with height mode, Cartesian with a geoid
\* conversion): unless another check rejects it, it passes validation.
C27_CartesianAccepted ==
    tool = "GPSH" /\ args.proj = "car" /\ args.hmode = "off" /\ args.convert = None =>
        outcome.err \notin {"E_CarHmode", "E_CarConvert"}

\* C28: in TRX a destination epoch given while --epoch_trans is off, and
\* --epoch_trans on without a destination epoch, both end the run in the
\* validation section, before any request; so no request goes out with
\* epoch transformation on and an empty destination epoch.
C28_DestEpochAgreement ==
    tool = "TRX" =>
        /\ pc # "start" /\ args.destEpoch # None /\ args.epoch_trans = "off" => Rejected
        /\ pc # "start" /\ args.destEpoch = None /\ args.epoch_trans = "on" => Rejected
        /\ \A c \in Issued :
               args.epoch_trans = "on" => c.params["destepoch"] \notin {"", "None"}

\* the response holds the three velocity components
HasVelocities(body) ==
    /\ body.json /\ body.val.t = "obj"
    /\ {"VX", "VY", "VZ"} \subseteq DOMAIN body.val.m

\* C29: in a single-point TRX run that needs interpolated velocities (epoch
\* transformation on, not all three velocities supplied), every calculation
\* call follows a velocity call whose response held VX, VY and VZ and
\* carries exactly those values; when the velocity response is unparseable,
\* an error object or lacks a component, the invocation ends without a
\* calculation call.
C29_CalcAfterVelocity ==
    tool = "TRX" /\ args.file_path = None /\ args.epoch_trans = "on"
                 /\ VelocitiesSupplied < 3 =>
        /\ \A i \in MainAt :
               \E j \in VelocityAt :
                   j < i /\ HasVelocities(calls[j].reply) /\ Spliced(i, j)
        /\ \A j \in VelocityAt :
               pc = "exit" /\ ~HasVelocities(calls[j].reply) =>
                   MainAt = {} /\ outcome.kind = "crash"

\* a velocity response without VZ ended the run before the calculation call
C29_Witness ==
    /\ tool = "TRX" /\ pc = "exit" /\ MainAt = {}
    /\ \E j \in VelocityAt :
           /\ calls[j].reply.json /\ calls[j].reply.val.t = "obj"
           /\ DOMAIN calls[j].reply.val.m = {"VX", "VY"}

\* the character a %XX escape stands for
Unescaped(xx) ==
    CASE xx = "%20" -> " "
      [] xx = "%25" -> "%"
      [] xx = "%28" -> "("
      [] xx = "%29" -> ")"
      [] xx = "%2B" -> "+"
      [] xx = "%2F" -> "/"
      [] OTHER -> xx

\* URL-decoding, once: each %XX escape gives its character, and in a query
\* value (plus = TRUE) each '+' a space
RECURSIVE Unquote(_, _)

Unquote(s, plus) ==
    IF s = "" THEN ""
    ELSE IF SubSeq(s, 1, 1) = "%" /\ Len(s) >= 3
    THEN Unescaped(SubSeq(s, 1, 3)) \o Unquote(SubSeq(s, 4, Len(s)), plus)
    ELSE (IF plus /\ SubSeq(s, 1, 1) = "+" THEN " " ELSE SubSeq(s, 1, 1))
         \o Unquote(SubSeq(s, 2, Len(s)), plus)

\* C30: for every ellipsoid of the catalog, in the single-point URL INDIR
\* builds, URL-decoding once the ellipsoid path segment and URL-decoding
\* once the value of the query parameter `ellipsoid` both give the
\* canonical catalog code.
C30_EllipsoidRoundTrip ==
    tool = "INDIR" =>
        \A c \in SingleCalls :
            \A code \in CodesMatching(ellipsoid_dict, args.ellipsoid) :
                /\ Unquote(CodeSegment(c.path), FALSE) = code
                /\ Unquote(urlencode(c.params)["ellipsoid"], TRUE) = code

====
